---------------------------- MODULE Spec2Model ----------------------------
(***************************************************************************)
(* A model of ue4ts: the annotation parser and its type-expression parser, *)
(* the comment associator, the overload merger of the line-based           *)
(* generator, the declaration synthesizer with the per-file renderer, and  *)
(* the process() pipeline with its persisted meta store.                   *)
(*                                                                         *)
(* Text is modelled as a sequence of one-character strings, so that the    *)
(* scanners and regular expressions of the source are computed character   *)
(* by character, as the code computes them.                                *)
(***************************************************************************)
EXTENDS Integers, Sequences, FiniteSets, TLC

VARIABLES
    tSrc,      \* type parser: the structured form the input text was written from
    tText,     \* type parser: the input text handed to parseType
    tResult,   \* type parser: the TypeNode returned, an error, or None before the call
    tRendered, \* type parser: what renderTypeNode made of the TypeNode, or None
    aComments, \* associator: ast.comments, each [line, kind] in source order
    aStmts,    \* associator: ast.body, the first line of each top-level statement
    aBlocks,   \* associator: commentBlocks in insertion order, each [from, to, nodes]
    aMap,      \* associator: parsedCommentMap, per statement a block index or 0 for []
    aAttached, \* associator: statementComments, the block indices attached so far
    aStandalone, \* associator: standaloneComments, block indices in order
    aPc,       \* associator: the position in parse()
    gDefs,     \* line-based generator: the definitions map, name -> entry or None
    gLast,     \* line-based generator: the arguments of the last handleDuplicateFns call
    gThrown,   \* line-based generator: an exception left handleDuplicateFns
    gCalls,    \* line-based generator: the number of function lines read so far
    dFiles,    \* disk: the text of each Lua source file, by path
    dCache,    \* disk: ue4ts-meta.json, [present, entries] with comma-joined name lists
    dOut,      \* disk: the declaration file written for each path, or None
    mMeta,     \* process: metadataHandler.metaData.entries
    rPc,       \* process: the position in process()
    rResults,  \* process: resultsUnfiltered while transpiling, results afterwards
    rThrown,   \* process: the paths whose callback threw
    rResolved, \* process: the number of results whose imports were resolved
    rWritten,  \* process: the number of results whose output was written
    rUpdated,  \* process: the results whose entry was handed to update
    rRun,      \* the number of runs started
    rEdits,    \* the number of source files edited since the last run
    hCacheAtStart, \* history: ue4ts-meta.json as it was when the run started
    hSaves,    \* history: the number of save() calls of the run
    hSaved,    \* history: the entries as they were in memory at the last save()
    fItems,    \* synthesizer: the statement/block pairs of the file, in order
    fPos,      \* synthesizer: the number of pairs handed to renderStatement
    fStatements, \* synthesizer: the statements collected for the file
    fTypes,    \* synthesizer: the type names pushed to types
    fOut,      \* synthesizer: what the file renders to, or None before that
    fPc,       \* synthesizer: the position in the callback of process()
    pLines,    \* annotation parser: the lines handed to parseAnnotations
    pNodes     \* annotation parser: the nodes returned, an error, or None before the call

typeVars == <<tSrc, tText, tResult, tRendered>>
assocVars == <<aComments, aStmts, aBlocks, aMap, aAttached, aStandalone, aPc>>
genVars == <<gDefs, gLast, gThrown, gCalls>>

runVars == <<dFiles, dCache, dOut, mMeta, rPc, rResults, rThrown, rResolved, rWritten,
             rUpdated, rRun, rEdits, hCacheAtStart, hSaves, hSaved>>

fileVars == <<fItems, fPos, fStatements, fTypes, fOut, fPc>>

annotVars == <<pLines, pNodes>>

vars == <<typeVars, assocVars, genVars, runVars, fileVars, annotVars>>

exceptType == <<assocVars, genVars, runVars, fileVars, annotVars>>
exceptAssoc == <<typeVars, genVars, runVars, fileVars, annotVars>>
exceptGen == <<typeVars, assocVars, runVars, fileVars, annotVars>>
exceptRun == <<typeVars, assocVars, genVars, fileVars, annotVars>>
exceptFile == <<typeVars, assocVars, genVars, runVars, annotVars>>
exceptAnnot == <<typeVars, assocVars, genVars, runVars, fileVars>>

None == [kind |-> "none"]

(***************************************************************************)
(* Characters and strings.                                                 *)
(***************************************************************************)
Lower == {"a","b","c","d","e","f","g","h","i","j","k","l","m",
          "n","o","p","q","r","s","t","u","v","w","x","y","z"}
Upper == {"A","B","C","D","E","F","G","H","I","J","K","L","M",
          "N","O","P","Q","R","S","T","U","V","W","X","Y","Z"}
Digit == {"0","1","2","3","4","5","6","7","8","9"}

\* the regular-expression class [\w$]
WordChar == Lower \cup Upper \cup Digit \cup {"_", "$"}

\* A character is a one-character string; a character that cannot be written
\* so is the string "U+" followed by the four lower-case hexadecimal digits
\* of its code.

\* the line terminators: LF, CR, U+2028 and U+2029; the regular-expression
\* class . takes every other character
IsLineTerminator(c) == c \in {"\n", "\r", "U+000a", "U+000d", "U+2028", "U+2029"}

\* the regular-expression class \s, which is also what trim() removes: the
\* white space and the line terminators
IsSpace(c) ==
    \/ c \in {" ", "\t", "\f", "U+0009", "U+000b", "U+000c", "U+00a0", "U+1680",
              "U+2000", "U+2001", "U+2002", "U+2003", "U+2004", "U+2005",
              "U+2006", "U+2007", "U+2008", "U+2009", "U+200a", "U+202f",
              "U+205f", "U+3000", "U+feff"}
    \/ IsLineTerminator(c)

Openers == {"<", "{", "("}
Closers == {">", "}", ")"}

\* String.prototype.slice(from, to) with 0-based, end-exclusive indices
Slice(s, from, to) == SubSeq(s, from + 1, to)

\* String.prototype.slice(from)
SliceFrom(s, from) == SubSeq(s, from + 1, Len(s))

\* String.prototype.startsWith
StartsWith(s, p) == Len(s) >= Len(p) /\ SubSeq(s, 1, Len(p)) = p

\* String.prototype.endsWith
EndsWith(s, p) == Len(s) >= Len(p) /\ SubSeq(s, Len(s) - Len(p) + 1, Len(s)) = p

\* String.prototype.indexOf(c) for a one-character needle; -1 when absent
IndexOf(s, c) ==
    IF \E i \in 1..Len(s) : s[i] = c
    THEN (CHOOSE i \in 1..Len(s) : s[i] = c /\ \A j \in 1..(i - 1) : s[j] # c) - 1
    ELSE -1

\* String.prototype.lastIndexOf(c) for a one-character needle; -1 when absent
LastIndexOf(s, c) ==
    IF \E i \in 1..Len(s) : s[i] = c
    THEN (CHOOSE i \in 1..Len(s) : s[i] = c /\ \A j \in (i + 1)..Len(s) : s[j] # c) - 1
    ELSE -1

\* String.prototype.includes(c) for a one-character needle
Includes(s, c) == \E i \in 1..Len(s) : s[i] = c

\* String.prototype.trim
Trim(s) ==
    IF \A i \in 1..Len(s) : IsSpace(s[i]) THEN <<>>
    ELSE LET a == CHOOSE i \in 1..Len(s) :
                      ~IsSpace(s[i]) /\ \A j \in 1..(i - 1) : IsSpace(s[j])
             b == CHOOSE i \in 1..Len(s) :
                      ~IsSpace(s[i]) /\ \A j \in (i + 1)..Len(s) : IsSpace(s[j])
         IN  SubSeq(s, a, b)

\* the concatenation of a sequence of strings
RECURSIVE Concat(_)
Concat(ss) == IF ss = <<>> THEN <<>> ELSE Head(ss) \o Concat(Tail(ss))

\* Array.prototype.join(sep)
RECURSIVE Join(_, _)
Join(ss, sep) ==
    IF ss = <<>> THEN <<>>
    ELSE IF Len(ss) = 1 THEN ss[1]
    ELSE ss[1] \o sep \o Join(Tail(ss), sep)

(***************************************************************************)
(* TypeExprParser (src/lib/annotation-parser.ts).                          *)
(***************************************************************************)
S_fun      == <<"f","u","n">>
S_function == <<"f","u","n","c","t","i","o","n">>
S_void     == <<"v","o","i","d">>
S_any      == <<"a","n","y">>
S_dots     == <<".",".",".">>
S_string   == <<"s","t","r","i","n","g">>
S_number   == <<"n","u","m","b","e","r">>
S_boolean  == <<"b","o","o","l","e","a","n">>
S_brackets == <<"[","]">>

Err(m) == [kind |-> "error", msg |-> m]
IsErr(n) == n.kind = "error"
Simple(name) == [kind |-> "simple", name |-> name]

\* the first error thrown while mapping over a list, if any
HasErr(nodes) == \E i \in 1..Len(nodes) : IsErr(nodes[i])
FirstErr(nodes) ==
    nodes[CHOOSE i \in 1..Len(nodes) :
              IsErr(nodes[i]) /\ \A j \in 1..(i - 1) : ~IsErr(nodes[j])]

\* .filter(Boolean) on a list of strings: the empty string is falsy
RECURSIVE NonEmpty(_)
NonEmpty(ss) ==
    IF ss = <<>> THEN <<>>
    ELSE (IF Head(ss) # <<>> THEN <<Head(ss)>> ELSE <<>>) \o NonEmpty(Tail(ss))

\* the loop of splitTopLevel: i is the next character, cur the pending part
RECURSIVE SplitLoop(_, _, _, _, _, _)
SplitLoop(input, sep, i, depth, cur, parts) ==
    IF i > Len(input)
    THEN IF cur # <<>> THEN Append(parts, Trim(cur)) ELSE parts
    ELSE LET c  == input[i]
             d2 == IF c \in Openers THEN depth + 1
                   ELSE IF c \in Closers THEN depth - 1 ELSE depth
         IN  IF c = sep /\ d2 = 0
             THEN SplitLoop(input, sep, i + 1, d2, <<>>, Append(parts, Trim(cur)))
             ELSE SplitLoop(input, sep, i + 1, d2, Append(cur, c), parts)

splitTopLevel(input, sep) == NonEmpty(SplitLoop(input, sep, 1, 0, <<>>, <<>>))

\* the length of the maximal prefix of s made of [\w$] characters
WordPrefixLen(s) ==
    IF \A i \in 1..Len(s) : s[i] \in WordChar THEN Len(s)
    ELSE (CHOOSE i \in 1..Len(s) :
              s[i] \notin WordChar /\ \A j \in 1..(i - 1) : s[j] \in WordChar) - 1

\* s without its leading white space
TrimStart(s) ==
    IF \A i \in 1..Len(s) : IsSpace(s[i]) THEN <<>>
    ELSE SubSeq(s, CHOOSE i \in 1..Len(s) :
                       ~IsSpace(s[i]) /\ \A j \in 1..(i - 1) : IsSpace(s[j]), Len(s))

\* s holds no line terminator: the whole of it can be taken by .+ or .*
OneLine(s) == \A i \in 1..Len(s) : ~IsLineTerminator(s[i])

\* what \s*(.+)$ captures from rest: the greedy \s* gives back its last
\* character when nothing else is left for (.+), and (.+) takes no line
\* terminator; <<>> stands for "no match"
SpacesThenSome(rest) ==
    IF rest = <<>> THEN <<>>
    ELSE IF TrimStart(rest) = <<>>
    THEN IF IsLineTerminator(rest[Len(rest)]) THEN <<>> ELSE <<rest[Len(rest)]>>
    ELSE IF OneLine(TrimStart(rest)) THEN TrimStart(rest) ELSE <<>>

\* /^fun\s*\([^)]*\)/ : the length of the match, or -1
FunHeaderLen(s) ==
    IF ~StartsWith(s, S_fun) THEN -1
    ELSE LET rest == TrimStart(SliceFrom(s, 3))
             open == Len(s) - Len(rest) + 1
         IN  IF rest = <<>> \/ rest[1] # "(" THEN -1
             ELSE IF ~Includes(rest, ")") THEN -1
             ELSE open + IndexOf(rest, ")")

\* /^([\w$]+)\s*:\s*(.+)$/ : <<name, type text>>, or <<>> when it does not match
NameColonMatch(s) ==
    LET n     == WordPrefixLen(s)
        after == TrimStart(SliceFrom(s, n))
    IN  IF n = 0 \/ after = <<>> \/ after[1] # ":" THEN <<>>
        ELSE IF SpacesThenSome(Tail(after)) = <<>> THEN <<>>
        ELSE <<SubSeq(s, 1, n), SpacesThenSome(Tail(after))>>

\* /^([\w$]+)<(.+)>$/ : <<base, parameter text>>, or <<>>
GenericMatch(s) ==
    LET n == WordPrefixLen(s)
    IN  IF n = 0 \/ Len(s) < n + 3 \/ s[n + 1] # "<" \/ s[Len(s)] # ">" THEN <<>>
        ELSE IF ~OneLine(SubSeq(s, n + 2, Len(s) - 1)) THEN <<>>
        ELSE <<SubSeq(s, 1, n), SubSeq(s, n + 2, Len(s) - 1)>>

\* /^\s*\[(.+)\]\s*:\s*(.+)$/ : <<key text, value text>>, or <<>>; the greedy
\* (.+) ends at the last "]" after which the rest of the pattern matches
TableFieldMatch(part) ==
    LET s    == TrimStart(part)
        Ok(j) == /\ j >= 3 /\ j <= Len(s) /\ s[j] = "]"
                 /\ OneLine(SubSeq(s, 2, j - 1))
                 /\ LET after == TrimStart(SliceFrom(s, j))
                    IN  /\ after # <<>> /\ after[1] = ":"
                        /\ SpacesThenSome(Tail(after)) # <<>>
    IN  IF s = <<>> \/ s[1] # "[" \/ ~\E j \in 1..Len(s) : Ok(j) THEN <<>>
        ELSE LET j == CHOOSE k \in 1..Len(s) : Ok(k) /\ \A m \in (k + 1)..Len(s) : ~Ok(m)
             IN  <<SubSeq(s, 2, j - 1),
                   SpacesThenSome(Tail(TrimStart(SliceFrom(s, j))))>>

\* one field of a table type, or the first error its key or value raised
TableField(k, v) ==
    IF IsErr(k) THEN k
    ELSE IF IsErr(v) THEN v
    ELSE [kind |-> "field", key |-> k, value |-> v]

\* the table node of a list of fields, or the first error among them
TableOf(fields) ==
    IF HasErr(fields) THEN FirstErr(fields) ELSE [kind |-> "table", fields |-> fields]

RECURSIVE parseType(_), parseSingle(_), parseFunctionType(_), parseTableType(_),
          parseParam(_)

\* one entry of the parameter list of a function type
parseParam(p) ==
    LET trimmed == Trim(p)
        qm      == NameColonMatch(trimmed)
    IN  IF qm # <<>>
        THEN LET t == parseType(qm[2])
             IN  IF IsErr(t) THEN t ELSE [name |-> qm[1], type |-> t, kind |-> "param"]
        ELSE IF trimmed = S_dots
        THEN [name |-> S_dots, type |-> parseType(S_any), kind |-> "param"]
        ELSE [name |-> trimmed, type |-> parseType(S_any), kind |-> "param"]

parseFunctionType(str) ==
    LET trimmed == Trim(str)
        hlen    == FunHeaderLen(trimmed)
        header  == SubSeq(trimmed, 1, hlen)
        tail    == Trim(SliceFrom(trimmed, hlen))
        idx     == IndexOf(tail, " ")
        \* <<>> stands for both undefined and the empty string: both are falsy
        retRaw  == IF StartsWith(tail, <<":">>)
                   THEN IF idx < 0 THEN SliceFrom(tail, 1) ELSE Slice(tail, 1, idx)
                   ELSE <<>>
        paramsRaw == Slice(header, IndexOf(header, "(") + 1, LastIndexOf(header, ")"))
        parts   == splitTopLevel(paramsRaw, ",")
        params  == [i \in 1..Len(parts) |-> parseParam(parts[i])]
        ret     == IF retRaw # <<>> THEN parseType(retRaw) ELSE Simple(S_void)
    IN  IF trimmed = S_function
        THEN [kind |-> "function", parameters |-> <<>>, returnType |-> Simple(S_void)]
        ELSE IF hlen < 0 THEN Err("Invalid function type")
        ELSE IF HasErr(params) THEN FirstErr(params)
        ELSE IF IsErr(ret) THEN ret
        ELSE [kind |-> "function", parameters |-> params, returnType |-> ret]

parseTableType(raw) ==
    LET content == Trim(Slice(raw, 1, Len(raw) - 1))
        parts   == splitTopLevel(content, ",")
        Field(part) ==
            IF TableFieldMatch(part) = <<>> THEN Err("Invalid table field")
            ELSE TableField(parseType(TableFieldMatch(part)[1]),
                            parseType(TableFieldMatch(part)[2]))
    IN  IF content = <<>> THEN [kind |-> "table", fields |-> <<>>]
        ELSE TableOf([i \in 1..Len(parts) |-> Field(parts[i])])

parseSingle(typeStr) ==
    LET str == Trim(typeStr)
        tupleTypes == splitTopLevel(str, ",")
        elems == [i \in 1..Len(tupleTypes) |-> parseType(tupleTypes[i])]
        gm == GenericMatch(str)
        gparts == splitTopLevel(gm[2], ",")
        gparams == [i \in 1..Len(gparts) |-> parseType(gparts[i])]
    IN  IF str # <<>> /\ EndsWith(str, <<"?">>)
        THEN LET inner == parseType(Trim(Slice(str, 0, Len(str) - 1)))
             IN  IF IsErr(inner) THEN inner ELSE [kind |-> "optional", type |-> inner]
        ELSE IF /\ str # <<>> /\ Includes(str, ",") /\ ~StartsWith(str, <<"{">>)
                /\ ~StartsWith(str, S_fun) /\ ~EndsWith(str, S_brackets)
                /\ Len(tupleTypes) > 1
        THEN IF HasErr(elems) THEN FirstErr(elems)
             ELSE [kind |-> "staticArray", elementType |-> elems]
        ELSE IF str = <<>> THEN Err("Empty type")
        ELSE IF EndsWith(str, S_brackets)
        THEN LET inner == parseType(Trim(Slice(str, 0, Len(str) - 2)))
             IN  IF IsErr(inner) THEN inner ELSE [kind |-> "array", elementType |-> inner]
        ELSE IF StartsWith(str, <<"{">>) /\ EndsWith(str, <<"}">>) THEN parseTableType(str)
        ELSE IF StartsWith(str, S_fun) THEN parseFunctionType(str)
        ELSE IF gm # <<>>
        THEN IF HasErr(gparams) THEN FirstErr(gparams)
             ELSE [kind |-> "generic", base |-> gm[1], parameters |-> gparams]
        ELSE Simple(str)

parseType(input) ==
    LET opts == splitTopLevel(input, "|")
        nodes == [i \in 1..Len(opts) |-> parseType(opts[i])]
    IN  IF Len(opts) > 1
        THEN IF HasErr(nodes) THEN FirstErr(nodes)
             ELSE [kind |-> "union", options |-> nodes]
        ELSE parseSingle(IF opts = <<>> THEN <<>> ELSE opts[1])

(***************************************************************************)
(* The type parser's inputs: function type expressions written from a      *)
(* parameter list and an optional return-type trailer.                     *)
(***************************************************************************)
MaxParams == 2

ParamNames == {<<"a">>, <<"b">>}
ParamTypes == {S_string, S_number}
RetTypes   == {S_boolean, S_number}

SeqsUpTo(S, n) == UNION {[1..k -> S] : k \in 0..n}

FunParam == [name : ParamNames, type : ParamTypes]

\* sp: whether a space follows the colon of the trailer, as in "): boolean"
FunSrc == [kind : {"fun"}, params : SeqsUpTo(FunParam, MaxParams),
           trailer : {"none"}, sp : {FALSE}, ret : {<<>>}]
          \cup
          [kind : {"fun"}, params : SeqsUpTo(FunParam, MaxParams),
           trailer : {"type"}, sp : BOOLEAN, ret : RetTypes]

ParamText(p) == p.name \o <<":", " ">> \o p.type

FunText(src) ==
    S_fun \o <<"(">>
    \o Join([i \in 1..Len(src.params) |-> ParamText(src.params[i])], <<",", " ">>)
    \o <<")">>
    \o (IF src.trailer = "none" THEN <<>>
        ELSE <<":">> \o (IF src.sp THEN <<" ">> ELSE <<>>) \o src.ret)

\* the type names written into the array and table expressions
TypeNames == {<<"T">>, <<"F","o","o">>, <<"i","n","t","e","g","e","r">>, <<"A",".","B">>,
              <<"c","o","n","s","t","r","u","c","t","o","r">>}

\* X[] and {[number]: X}
ArraySrc == [kind : {"array"}, name : TypeNames]
TableSrc == [kind : {"tableOf"}, name : TypeNames]

\* the empty text, `Foo<A`, `{[K]: V`, `fun(a` and `{K: V}`
MalformedTexts ==
    { <<>>,
      <<"F","o","o","<","A">>,
      <<"{","[","K","]",":"," ","V">>,
      <<"f","u","n","(","a">>,
      <<"{","K",":"," ","V","}">> }

TextSrc == [kind : {"text"}, text : MalformedTexts]

TextOf(src) ==
    CASE src.kind = "fun" -> FunText(src)
      [] src.kind = "array" -> src.name \o S_brackets
      [] src.kind = "tableOf" ->
           <<"{","[">> \o S_number \o <<"]",":"," ">> \o src.name \o <<"}">>
      [] src.kind = "text" -> src.text

TypeStart ==
    /\ tSrc \in FunSrc \cup ArraySrc \cup TableSrc \cup TextSrc
    /\ tText = TextOf(tSrc)
    /\ tResult = None
    /\ tRendered = None

TypeIdle ==
    /\ tSrc = None
    /\ tText = <<>>
    /\ tResult = None
    /\ tRendered = None

\* TypeExprParser.parse(text)
Parse ==
    /\ tResult = None
    /\ tResult' = parseType(tText)
    /\ UNCHANGED <<tSrc, tText, tRendered>>
    /\ UNCHANGED exceptType

(***************************************************************************)
(* CommentAssociator: parse(source) of the lua-parser                      *)
(* (src/lib/annotation-parser.ts, lines 285-358).                          *)
(*                                                                         *)
(* A comment token is [line, kind]: line is comment.loc.start.line, kind   *)
(* is "class" for a `---@class X` line (parseAnnotations gives one node)   *)
(* and "plain" for a `-- text` or `--[[ text ]]` comment (parseAnnotations *)
(* gives no node).  A line comment runs to the end of its line, so of the  *)
(* comments that start on one line all but the last are `--[[ ]]` ones.    *)
(***************************************************************************)
MaxLine == 5
MaxComments == 3
MaxStmts == 2

CommentKinds == {"class", "plain"}

\* parseAnnotations(block.map(c => c.raw)): the nodes of a run of comment lines
RECURSIVE parseAnnotationsKinds(_)
parseAnnotationsKinds(cs) ==
    IF cs = <<>> THEN <<>>
    ELSE (IF Head(cs).kind = "class" THEN <<"class">> ELSE <<>>)
         \o parseAnnotationsKinds(Tail(cs))

MkBlock(cur, from, to) == [from |-> from, to |-> to, nodes |-> parseAnnotationsKinds(cur)]

\* the grouping loop: cur is currentBlock, blocks is commentBlocks so far
RECURSIVE GroupLoop(_, _, _, _, _, _)
GroupLoop(cs, i, cur, from, to, blocks) ==
    IF i > Len(cs)
    THEN IF Len(cur) > 0 THEN Append(blocks, MkBlock(cur, from, to)) ELSE blocks
    ELSE LET line == cs[i].line
         IN  IF Len(cur) = 0 \/ line = to + 1
             THEN GroupLoop(cs, i + 1, Append(cur, cs[i]),
                            IF Len(cur) = 0 THEN line ELSE from, line, blocks)
             ELSE GroupLoop(cs, i + 1, <<cs[i]>>, line, line,
                            Append(blocks, MkBlock(cur, from, to)))

GroupComments(cs) == GroupLoop(cs, 1, <<>>, -1, -1, <<>>)

\* the predicate of Array.from(commentBlocks).find(...)
RightAbove(range, line) ==
    range.to = line - 1 \/ (range.from = range.to /\ range.to = line - 1)

\* Array.prototype.find over the blocks in insertion order: an index, or 0
FindBlock(blocks, line) ==
    IF \E b \in 1..Len(blocks) : RightAbove(blocks[b], line)
    THEN CHOOSE b \in 1..Len(blocks) :
             RightAbove(blocks[b], line) /\ \A c \in 1..(b - 1) : ~RightAbove(blocks[c], line)
    ELSE 0

\* the indices in 1..n that satisfy Keep, in increasing order
RECURSIVE IndicesWhere(_, _)
IndicesWhere(n, keep) ==
    IF n = 0 THEN <<>>
    ELSE IndicesWhere(n - 1, keep) \o (IF keep[n] THEN <<n>> ELSE <<>>)

\* Array.from(commentBlocks).filter(not attached).filter(x => x.length > 0)
StandaloneOf(blocks, attached) ==
    IndicesWhere(Len(blocks),
                 [b \in 1..Len(blocks) |-> b \notin attached /\ Len(blocks[b].nodes) > 0])

IsSorted(ls) == \A i \in 1..(Len(ls) - 1) : ls[i] <= ls[i + 1]

\* the tokens and statements the Lua parser reports, in source order
CommentLists ==
    {cs \in SeqsUpTo([line : 1..MaxLine, kind : CommentKinds], MaxComments) :
        /\ IsSorted([i \in 1..Len(cs) |-> cs[i].line])
        /\ \A i \in 1..(Len(cs) - 1) :
               cs[i].line = cs[i + 1].line => cs[i].kind = "plain"}
StmtLists == {ls \in SeqsUpTo(1..MaxLine, MaxStmts) : IsSorted(ls)}

AssocStart ==
    /\ aComments \in CommentLists
    /\ aStmts \in StmtLists
    /\ aBlocks = <<>>
    /\ aMap = <<>>
    /\ aAttached = {}
    /\ aStandalone = <<>>
    /\ aPc = "group"

AssocIdle ==
    /\ aComments = <<>>
    /\ aStmts = <<>>
    /\ aBlocks = <<>>
    /\ aMap = <<>>
    /\ aAttached = {}
    /\ aStandalone = <<>>
    /\ aPc = "idle"

\* lines 295-330: group the comments into blocks
Group ==
    /\ aPc = "group"
    /\ aBlocks' = GroupComments(aComments)
    /\ aPc' = "associate"
    /\ UNCHANGED <<aComments, aStmts, aMap, aAttached, aStandalone>>
    /\ UNCHANGED exceptAssoc

\* lines 333-353: one iteration of the loop over ast.body
Associate ==
    /\ aPc = "associate"
    /\ Len(aMap) < Len(aStmts)
    /\ LET b == FindBlock(aBlocks, aStmts[Len(aMap) + 1])
       IN  /\ aMap' = Append(aMap, b)
           /\ aAttached' = IF b # 0 THEN aAttached \cup {b} ELSE aAttached
    /\ UNCHANGED <<aComments, aStmts, aBlocks, aStandalone, aPc>>
    /\ UNCHANGED exceptAssoc

\* lines 354-356: the standalone blocks, and the return
Collect ==
    /\ aPc = "associate"
    /\ Len(aMap) = Len(aStmts)
    /\ aStandalone' = StandaloneOf(aBlocks, aAttached)
    /\ aPc' = "done"
    /\ UNCHANGED <<aComments, aStmts, aBlocks, aMap, aAttached>>
    /\ UNCHANGED exceptAssoc
(***************************************************************************)
(* OverloadMerger: handleDuplicateFns of the line-based generator          *)
(* (src/generate_typings.ts).                                              *)
(***************************************************************************)
MaxFnParams == 2
MaxDefs == 2

FnNames == {"f", "C:m", "TArray"}
\* a name is empty after "---@param  x string", written with two spaces
FieldNames == {<<"a">>, <<"b">>, <<>>}
FieldTypes == {S_string, S_number}

\* a FieldEntry as the @param branch pushes it: one name, one mapped type
FieldEntry == [name : FieldNames, types : {<<t>> : t \in FieldTypes}]
FieldLists == SeqsUpTo(FieldEntry, MaxFnParams)

Max(a, b) == IF a >= b THEN a ELSE b

\* '(' + types.join(" | ") + ")"
Grouped(types) == <<"(">> \o Join(types, <<" ", "|", " ">>) \o <<")">>

S_or == <<"_","o","r","_">>
S_error == <<"_","_","E","R","R","O","R","_","_">>

\* REPLACERS: the class names whose definition is rewritten on the way in
ReplacerKeys == {"TArray", "TSet"}

S_indexNumber == <<"[","i","n","d","e","x",":"," ","n","u","m","b","e","r","]">>
S_indexAny == <<"[","i","n","d","e","x",":"," ","a","n","y","]">>

\* delete def.extends
WithoutExtends(def) == [k \in DOMAIN def \ {"extends"} |-> def[k]]

\* def.fields?.push({ name, types: [type] })
WithIndexField(def, name, type) ==
    IF "fields" \in DOMAIN def
    THEN [def EXCEPT !.fields = Append(@, [name |-> name, types |-> <<type>>])]
    ELSE def

\* runReplacer, for the definitions the function branch hands to setDefinition:
\* removeGenerics(def.name) is the name itself, a function name has no "<"
runReplacer(def) ==
    IF def.name = "TArray"
    THEN WithIndexField(WithoutExtends(def), S_indexNumber, <<"T">>)
    ELSE IF def.name = "TSet"
    THEN WithIndexField(WithoutExtends(def), S_indexAny, <<"n","u","l","l">>)
    ELSE def

\* setDefinition: definitions.set(def.name, runReplacer(def))
setDefinition(definitions, def) ==
    [definitions EXCEPT ![def.name] = runReplacer(def)]

\* one iteration of the merge loop at 1-based index i: field is the incoming
\* entry, existingField the recorded one, None when the list is shorter
MergeAt(fields, existingFields, i) ==
    LET field         == IF i <= Len(fields) THEN fields[i] ELSE None
        existingField == IF i <= Len(existingFields) THEN existingFields[i] ELSE None
        hasF  == field # None /\ Len(field.types) > 0
        hasE  == existingField # None /\ Len(existingField.types) > 0
        types == (IF hasF THEN <<Grouped(field.types)>> ELSE <<>>)
                 \o (IF hasE THEN <<Grouped(existingField.types)>> ELSE <<>>)
        mark  == ~hasE \/ ~hasF
        \* field!.name += "?" on an undefined field is a TypeError
        fname == IF mark THEN field.name \o <<"?">> ELSE field.name
    IN  IF mark /\ field = None THEN [thrown |-> TRUE]
        ELSE [thrown |-> FALSE,
              \* line 493: joined only when both names are non-empty
              entry  |-> [name  |-> IF /\ fname # <<>>
                                       /\ existingField # None
                                       /\ existingField.name # <<>>
                                    THEN existingField.name \o S_or \o fname
                                    ELSE fname,
                          types |-> types]]

\* the merge loop of handleDuplicateFns: the merged list, or thrown
MergeFields(fields, existingFields) ==
    LET n   == Max(Len(fields), Len(existingFields))
        all == [i \in 1..n |-> MergeAt(fields, existingFields, i)]
    IN  IF \E i \in 1..n : all[i].thrown THEN [thrown |-> TRUE]
        ELSE [thrown |-> FALSE, fields |-> [i \in 1..n |-> all[i].entry]]

GenStart ==
    /\ gDefs = [n \in FnNames |-> None]
    /\ gLast = None
    /\ gThrown = FALSE
    /\ gCalls = 0

GenIdle ==
    /\ gDefs = <<>>
    /\ gLast = None
    /\ gThrown = FALSE
    /\ gCalls = 0

DefCount == Cardinality({n \in FnNames : gDefs[n] # None})

\* generateDefinitions, lines 408-438: a function line closes the definition
\* collected from the @param lines above it and hands it to handleDuplicateFns
DefineFunction(name, fields) ==
    /\ ~gThrown
    /\ gCalls < MaxDefs
    /\ gCalls' = gCalls + 1
    /\ LET existing == gDefs[name]
           cur      == [type |-> "function", name |-> name, fields |-> fields]
           merged   == MergeFields(fields, existing.fields)
       IN  /\ gLast' = [kind |-> "call", name |-> name,
                        incoming |-> fields, collided |-> existing # None,
                        existing |-> IF existing = None THEN <<>> ELSE existing.fields]
           /\ IF existing = None
              THEN gDefs' = setDefinition(gDefs, cur) /\ gThrown' = FALSE
              ELSE IF merged.thrown
              THEN gDefs' = gDefs /\ gThrown' = TRUE
              ELSE /\ gDefs' = setDefinition(gDefs, [cur EXCEPT !.fields = merged.fields])
                   /\ gThrown' = FALSE
    /\ UNCHANGED exceptGen

(***************************************************************************)
(* process() and MetaHandler (src/unnamed/part_002).                       *)
(*                                                                         *)
(* A path is a sequence of segments; a type name is a string of            *)
(* characters.  The text of a source file is given by what the pipeline    *)
(* reads out of it: the names it declares (`---@class N` above a table),   *)
(* the type names its annotations refer to, and whether luaparse rejects   *)
(* it.  SHA-256 is taken to be injective: a hash is the tuple hashed.      *)
(***************************************************************************)
MaxRuns == 2
MaxEdits == 1

N_Foo == <<"F","o","o">>
N_TObjectPtr == <<"T","O","b","j","e","c","t","P","t","r">>
N_RemoteObject == <<"R","e","m","o","t","e","O","b","j","e","c","t">>
S_unknown == <<"u","n","k","n","o","w","n">>
S_null == <<"n","u","l","l">>
S_undefined == <<"u","n","d","e","f","i","n","e","d">>
S_comma == <<",">>

INTERNALS == {S_string, S_number, S_boolean, S_function, S_unknown, S_any,
              S_void, S_null, S_undefined}

N_constructor == <<"c","o","n","s","t","r","u","c","t","o","r">>
N_TWeakObjectPtr == <<"T","W","e","a","k","O","b","j","e","c","t","P","t","r">>
N_TFieldPath == <<"T","F","i","e","l","d","P","a","t","h">>
N_TLazyObjectPtr == <<"T","L","a","z","y","O","b","j","e","c","t","P","t","r">>

\* TYPE_REPLACERS and FALLBACK_DEFS are object literals: a lookup by a name
\* such an object does not hold
\* finds what every object inherits, a function (the runtime, Deno, has no
\* Object.prototype.__proto__). Such a value is no string; it is kept as the
\* one-element sequence of the text a template literal gives for it
ObjectPrototype ==
    (N_constructor :> <<"function Object() { [native code] }">>)
    @@ (<<"t","o","S","t","r","i","n","g">> :> <<"function toString() { [native code] }">>)
    @@ (<<"t","o","L","o","c","a","l","e","S","t","r","i","n","g">> :> <<"function toLocaleString() { [native code] }">>)
    @@ (<<"v","a","l","u","e","O","f">> :> <<"function valueOf() { [native code] }">>)
    @@ (<<"h","a","s","O","w","n","P","r","o","p","e","r","t","y">> :> <<"function hasOwnProperty() { [native code] }">>)
    @@ (<<"i","s","P","r","o","t","o","t","y","p","e","O","f">> :> <<"function isPrototypeOf() { [native code] }">>)
    @@ (<<"p","r","o","p","e","r","t","y","I","s","E","n","u","m","e","r","a","b","l","e">> :> <<"function propertyIsEnumerable() { [native code] }">>)
    @@ (<<"_","_","d","e","f","i","n","e","G","e","t","t","e","r","_","_">> :> <<"function __defineGetter__() { [native code] }">>)
    @@ (<<"_","_","d","e","f","i","n","e","S","e","t","t","e","r","_","_">> :> <<"function __defineSetter__() { [native code] }">>)
    @@ (<<"_","_","l","o","o","k","u","p","G","e","t","t","e","r","_","_">> :> <<"function __lookupGetter__() { [native code] }">>)
    @@ (<<"_","_","l","o","o","k","u","p","S","e","t","t","e","r","_","_">> :> <<"function __lookupSetter__() { [native code] }">>)

NotAString(type) == \E k \in DOMAIN ObjectPrototype : ObjectPrototype[k] = type

FALLBACK_DEFS ==
    (N_TWeakObjectPtr :> "type TWeakObjectPtr<T = any> = unknown")
    @@ (N_TObjectPtr :> "type TObjectPtr<T = any> = unknown")
    @@ (N_TFieldPath :> "type TFieldPath<T = any> = unknown")
    @@ (N_TLazyObjectPtr :> "type TLazyObjectPtr<T = any> = unknown")
    @@ (N_RemoteObject :> "")

DEBUG_FORCE_REBUILD == TRUE

packageInfo_version == "version"

\* the names a file can declare, and the names its annotations can refer to
DeclNames == {N_Foo}
\* the order in which a file that mentions several names mentions them
NameOrder == <<N_Foo, N_TObjectPtr, N_constructor>>

\* [...paths]: what glob("./**/*.lua") returns, in its order
Paths == << <<"d", "y.lua">>, <<"d", "z.lua">>, <<"x.lua">> >>
PathSet == {Paths[i] : i \in 1..Len(Paths)}

\* constructor is a name every object literal inherits; a file refers to it
\* by a supertype, "---@class A : constructor" (line 692)
UseSets == {{}, {N_Foo}, {N_Foo, N_TObjectPtr, N_constructor}}

\* selfComma: the text contains "function(self, )"
SourceTexts ==
    {[decl |-> d, uses |-> u, bad |-> FALSE, selfComma |-> FALSE] :
        d \in SUBSET DeclNames, u \in UseSets}
    \cup {[decl |-> {}, uses |-> {}, bad |-> TRUE, selfComma |-> FALSE],
          [decl |-> {}, uses |-> {}, bad |-> FALSE, selfComma |-> TRUE]}

NamesOf(set) == SelectSeq(NameOrder, LAMBDA n : n \in set)

\* String.prototype.split(sep) for a one-character separator
RECURSIVE SplitOnLoop(_, _, _, _, _)
SplitOnLoop(s, sep, i, cur, acc) ==
    IF i > Len(s) THEN Append(acc, cur)
    ELSE IF s[i] = sep THEN SplitOnLoop(s, sep, i + 1, <<>>, Append(acc, cur))
    ELSE SplitOnLoop(s, sep, i + 1, Append(cur, s[i]), acc)

SplitOn(s, sep) == SplitOnLoop(s, sep, 1, <<>>, <<>>)

\* String.prototype.split(",")
split(s) == SplitOn(s, ",")

\* Array.prototype.includes
ArrIncludes(arr, x) == \E i \in 1..Len(arr) : arr[i] = x

\* Set.prototype.add on a set kept in insertion order
SetAdd(arr, x) == IF ArrIncludes(arr, x) THEN arr ELSE Append(arr, x)

CacheMissing == [present |-> FALSE, entries |-> <<>>]

\* MetaHandler.load, lines 32-53
load(file) ==
    IF ~file.present THEN <<>>
    ELSE [i \in 1..Len(file.entries) |->
            [path        |-> file.entries[i].path,
             imports     |-> split(file.entries[i].imports),
             missingDeps |-> split(file.entries[i].missingDeps),
             exports     |-> split(file.entries[i].exports),
             fnHash      |-> file.entries[i].fnHash,
             fcHash      |-> file.entries[i].fcHash]]

\* MetaHandler.save, lines 55-68
save(entries) ==
    [present |-> TRUE,
     entries |-> [i \in 1..Len(entries) |->
            [path        |-> entries[i].path,
             imports     |-> Join(entries[i].imports, S_comma),
             missingDeps |-> Join(entries[i].missingDeps, S_comma),
             exports     |-> Join(entries[i].exports, S_comma),
             fcHash      |-> entries[i].fcHash,
             fnHash      |-> entries[i].fnHash]]]

\* MetaHandler.findExport, lines 70-76
findExport(entries, name) == SelectSeq(entries, LAMBDA x : ArrIncludes(x.exports, name))

\* MetaHandler.findPath, lines 86-88
findPath(entries, path) ==
    IF \E i \in 1..Len(entries) : entries[i].path = path
    THEN entries[CHOOSE i \in 1..Len(entries) :
                    entries[i].path = path /\ \A j \in 1..(i - 1) : entries[j].path # path]
    ELSE None

\* a variant that pushes the entry whether or not its path is recorded
updateAppend(entries, md) == Append(entries, md)

\* MetaHandler.update, lines 94-102
update(entries, md) ==
    IF \E i \in 1..Len(entries) : entries[i].path = md.path
    THEN LET existingIndex == CHOOSE i \in 1..Len(entries) :
                 entries[i].path = md.path /\ \A j \in 1..(i - 1) : entries[j].path # md.path
         IN  [entries EXCEPT ![existingIndex] = md]
    ELSE Append(entries, md)

generateFnHash(path) == <<packageInfo_version, path>>
generateFcHash(path, render) == <<packageInfo_version, path, render>>

\* FIXERS, src/lib/fixers.ts: the first replaces every "function(self, )" by
\* "function(self)"; the second applies to a file name that is not in Paths
ApplyFixers(p, text) == [text EXCEPT !.selfComma = FALSE]

\* lines 899-1035 for a text luaparse accepts: the statements rendered, the
\* names exported by the classes among them, the names referred to
Transpile(p, sourceString) ==
    LET exportDefs == NamesOf(sourceString.decl)
        usedTypes  == NamesOf(sourceString.uses)
    IN  [path         |-> p,
         skip         |-> FALSE,
         exportDefs   |-> exportDefs,
         usedTypes    |-> usedTypes,
         foreignTypes |-> SelectSeq(usedTypes,
                             LAMBDA x : ~ArrIncludes(exportDefs, x) /\ x \notin INTERNALS),
         notFound     |-> <<>>,
         render       |-> [imports |-> <<>>, classes |-> exportDefs, stubs |-> <<>>],
         imports      |-> <<>>,
         sourceString |-> sourceString,
         cached       |-> None]

\* lines 876-885: the result of a skipped file
Skipped(p, sourceString, previous) ==
    [path         |-> p,
     skip         |-> TRUE,
     exportDefs   |-> <<>>,
     usedTypes    |-> <<>>,
     foreignTypes |-> <<>>,
     notFound     |-> <<>>,
     render       |-> [imports |-> <<>>, classes |-> <<>>, stubs |-> <<>>],
     imports      |-> <<>>,
     sourceString |-> sourceString,
     cached       |-> previous]

\* lines 871-887
ShouldSkip(p, sourceString, previous) ==
    /\ ~DEBUG_FORCE_REBUILD
    /\ previous # None
    /\ previous.fcHash = generateFcHash(p, sourceString)

\* the callback of lines 861-1036 for one path
TranspileFile(p, sourceString, entries) ==
    LET previous == findPath(entries, p)
    IN  IF ShouldSkip(p, sourceString, previous)
        THEN Skipped(p, sourceString, previous)
        ELSE Transpile(p, ApplyFixers(p, sourceString))

\* line 1044: results.find(r => r.exportDefs?.has(type)), as an index or 0
FindExporter(results, type) ==
    IF \E i \in 1..Len(results) : ArrIncludes(results[i].exportDefs, type)
    THEN CHOOSE i \in 1..Len(results) :
             /\ ArrIncludes(results[i].exportDefs, type)
             /\ \A j \in 1..(i - 1) : ~ArrIncludes(results[j].exportDefs, type)
    ELSE 0

\* lines 1046-1049: the imports Map, kept in insertion order
AddImport(imports, path, type) ==
    IF \E i \in 1..Len(imports) : imports[i].path = path
    THEN LET k == CHOOSE i \in 1..Len(imports) : imports[i].path = path
         IN  [imports EXCEPT ![k].types = Append(@, type)]
    ELSE Append(imports, [path |-> path, types |-> <<type>>])

\* lines 1042-1066
RECURSIVE ResolveLoop(_, _, _, _, _, _)
ResolveLoop(types, k, imports, notFound, results, entries) ==
    IF k > Len(types) THEN [imports |-> imports, notFound |-> notFound]
    ELSE LET type        == types[k]
             foreign     == FindExporter(results, type)
             metaEntries == findExport(entries, type)
         IN  IF foreign # 0
             THEN ResolveLoop(types, k + 1, AddImport(imports, results[foreign].path, type),
                              notFound, results, entries)
             ELSE IF Len(metaEntries) > 0
             THEN ResolveLoop(types, k + 1, AddImport(imports, metaEntries[1].path, type),
                              notFound, results, entries)
             ELSE ResolveLoop(types, k + 1, imports, SetAdd(notFound, type),
                              results, entries)

\* lines 1071-1076: the declaration written for a name that was not found
StubLine(type) ==
    IF type \in DOMAIN FALLBACK_DEFS /\ FALLBACK_DEFS[type] # ""
    THEN [name |-> type, text |-> FALLBACK_DEFS[type]]
    ELSE IF type \in DOMAIN ObjectPrototype
    THEN [name |-> type, text |-> ObjectPrototype[type][1]]
    ELSE [name |-> type, text |-> "type N = unknown;"]

\* lines 1041-1079 for one result
ResolveResult(result, results, entries) ==
    LET r == ResolveLoop(result.foreignTypes, 1, <<>>, <<>>, results, entries)
    IN  [result EXCEPT !.imports = r.imports,
                       !.notFound = r.notFound,
                       !.render.stubs = [i \in 1..Len(r.notFound) |-> StubLine(r.notFound[i])]]

\* .replace(/\.lua$/, ".d.ts") on the file names of Paths
ReplaceLuaExt(name) ==
    CASE name = "x.lua" -> "x.d.ts"
      [] name = "y.lua" -> "y.d.ts"
      [] name = "z.lua" -> "z.d.ts"
      [] OTHER -> name

\* lines 1082 and 1085: "./output/" + path with the extension replaced, as
\* the segments below the working directory
OutputPath(path) ==
    <<"output">> \o SubSeq(path, 1, Len(path) - 1) \o <<ReplaceLuaExt(path[Len(path)])>>

\* line 1083: outputPath.substring(0, outputPath.lastIndexOf("/"))
OutputDir(path) == SubSeq(OutputPath(path), 1, Len(path))

\* the length of the longest common prefix of two segment sequences
CommonPrefix(a, b) ==
    CHOOSE k \in 0..Len(a) :
        /\ k <= Len(b)
        /\ \A i \in 1..k : a[i] = b[i]
        /\ (k < Len(a) /\ k < Len(b)) => a[k + 1] # b[k + 1]

\* relative(from, to) of std/path
relative(from, to) ==
    LET k == CommonPrefix(from, to)
    IN  [i \in 1..(Len(from) - k) |-> ".."] \o SubSeq(to, k + 1, Len(to))

\* relPath.startsWith("."): of the segments that occur, ".." begins with a dot
StartsWithDot(relPath) == relPath # <<>> /\ relPath[1] \in {".", ".."}

\* lines 1086-1087
RelPath(outputDir, importFilePath) ==
    LET relPath == relative(outputDir, importFilePath)
    IN  IF ~StartsWithDot(relPath) THEN <<".">> \o relPath ELSE relPath

\* lines 1081-1091 for one result: one import line per entry of its imports
WithImportLines(result) ==
    [result EXCEPT !.render.imports =
        [i \in 1..Len(result.imports) |->
            [types |-> result.imports[i].types,
             from  |-> RelPath(OutputDir(result.path), OutputPath(result.imports[i].path))]]]

\* lines 1106-1113: the entry recorded for a result
EntryOf(result) ==
    [path        |-> result.path,
     imports     |-> result.foreignTypes,
     missingDeps |-> result.notFound,
     exports     |-> result.exportDefs,
     fnHash      |-> generateFnHash(result.path),
     fcHash      |-> generateFcHash(result.path, result.sourceString)]

TasksRun == Len(rResults) + Cardinality(rThrown)

RunStart ==
    /\ dFiles \in [PathSet -> SourceTexts]
    /\ dCache = CacheMissing
    /\ dOut = [p \in PathSet |-> None]
    /\ mMeta = <<>>
    /\ rPc = "idle"
    /\ rResults = <<>>
    /\ rThrown = {}
    /\ rResolved = 0
    /\ rWritten = 0
    /\ rUpdated = {}
    /\ rRun = 0
    /\ rEdits = 0
    /\ hCacheAtStart = CacheMissing
    /\ hSaves = 0
    /\ hSaved = <<>>

RunIdle ==
    /\ dFiles = <<>>
    /\ dCache = CacheMissing
    /\ dOut = <<>>
    /\ mMeta = <<>>
    /\ rPc = "off"
    /\ rResults = <<>>
    /\ rThrown = {}
    /\ rResolved = 0
    /\ rWritten = 0
    /\ rUpdated = {}
    /\ rRun = 0
    /\ rEdits = 0
    /\ hCacheAtStart = CacheMissing
    /\ hSaves = 0
    /\ hSaved = <<>>

\* process is called: line 855, metadataHandler.load()
StartRun ==
    /\ rPc \in {"idle", "failed"}
    /\ rRun < MaxRuns
    /\ rRun' = rRun + 1
    /\ rPc' = "transpile"
    /\ mMeta' = load(dCache)
    /\ rResults' = <<>>
    /\ rThrown' = {}
    /\ rResolved' = 0
    /\ rWritten' = 0
    /\ rUpdated' = {}
    /\ rEdits' = 0
    /\ hCacheAtStart' = dCache
    /\ hSaves' = 0
    /\ UNCHANGED <<dFiles, dCache, dOut, hSaved>>
    /\ UNCHANGED exceptRun

\* lines 861-1036: the callback for the next path; with DEBUG_FORCE_REBUILD
\* set it reaches no await, so map() runs the callbacks one after the other;
\* an exception of luaparse rejects the callback's promise
TranspileNext ==
    /\ rPc = "transpile"
    /\ TasksRun < Len(Paths)
    /\ LET p == Paths[TasksRun + 1]
           sourceString == dFiles[p]
       IN  IF ApplyFixers(p, sourceString).bad /\ ~ShouldSkip(p, sourceString, findPath(mMeta, p))
           THEN rThrown' = rThrown \cup {p} /\ UNCHANGED rResults
           ELSE /\ rResults' = Append(rResults, TranspileFile(p, sourceString, mMeta))
                /\ UNCHANGED rThrown
    /\ UNCHANGED <<dFiles, dCache, dOut, mMeta, rPc, rResolved, rWritten, rUpdated,
                   rRun, rEdits, hCacheAtStart, hSaves, hSaved>>
    /\ UNCHANGED exceptRun

\* a variant that lets process continue after the first callback
BarrierEarly ==
    /\ rPc = "transpile"
    /\ TasksRun >= 1
    /\ IF rThrown # {}
       THEN rPc' = "failed" /\ UNCHANGED rResults
       ELSE rPc' = "resolve" /\ rResults' = SelectSeq(rResults, LAMBDA x : ~x.skip)
    /\ UNCHANGED <<dFiles, dCache, dOut, mMeta, rThrown, rResolved, rWritten, rUpdated,
                   rRun, rEdits, hCacheAtStart, hSaves, hSaved>>
    /\ UNCHANGED exceptRun

\* line 861, await Promise.all, and line 1038: process continues once every
\* callback has returned, and is rejected if one of them threw
Barrier ==
    /\ rPc = "transpile"
    /\ TasksRun = Len(Paths)
    /\ IF rThrown # {}
       THEN rPc' = "failed" /\ UNCHANGED rResults
       ELSE rPc' = "resolve" /\ rResults' = SelectSeq(rResults, LAMBDA x : ~x.skip)
    /\ UNCHANGED <<dFiles, dCache, dOut, mMeta, rThrown, rResolved, rWritten, rUpdated,
                   rRun, rEdits, hCacheAtStart, hSaves, hSaved>>
    /\ UNCHANGED exceptRun

\* lines 1041-1079 for the next result
ResolveNext ==
    /\ rPc = "resolve"
    /\ rResolved < Len(rResults)
    /\ rResolved' = rResolved + 1
    /\ rResults' = [rResults EXCEPT ![rResolved + 1] = ResolveResult(@, rResults, mMeta)]
    /\ UNCHANGED <<dFiles, dCache, dOut, mMeta, rPc, rThrown, rWritten, rUpdated,
                   rRun, rEdits, hCacheAtStart, hSaves, hSaved>>
    /\ UNCHANGED exceptRun

\* lines 1081-1091: the import statements of every result
GenerateImports ==
    /\ rPc = "resolve"
    /\ rResolved = Len(rResults)
    /\ rPc' = "write"
    /\ rResults' = [i \in 1..Len(rResults) |-> WithImportLines(rResults[i])]
    /\ UNCHANGED <<dFiles, dCache, dOut, mMeta, rThrown, rResolved, rWritten, rUpdated,
                   rRun, rEdits, hCacheAtStart, hSaves, hSaved>>
    /\ UNCHANGED exceptRun

\* lines 1094-1101 for the next result
WriteNext ==
    /\ rPc = "write"
    /\ rWritten < Len(rResults)
    /\ rWritten' = rWritten + 1
    /\ dOut' = [dOut EXCEPT ![rResults[rWritten + 1].path] = rResults[rWritten + 1].render]
    /\ UNCHANGED <<dFiles, dCache, mMeta, rPc, rResults, rThrown, rResolved, rUpdated,
                   rRun, rEdits, hCacheAtStart, hSaves, hSaved>>
    /\ UNCHANGED exceptRun

\* lines 1105-1114: each callback awaits its two digests and then calls
\* update; the digests complete in any order
Update(i) ==
    /\ rPc = "write"
    /\ rWritten = Len(rResults)
    /\ i \in 1..Len(rResults)
    /\ i \notin rUpdated
    /\ rUpdated' = rUpdated \cup {i}
    /\ mMeta' = update(mMeta, EntryOf(rResults[i]))
    /\ UNCHANGED <<dFiles, dCache, dOut, rPc, rResults, rThrown, rResolved, rWritten,
                   rRun, rEdits, hCacheAtStart, hSaves, hSaved>>
    /\ UNCHANGED exceptRun

\* a variant that saves as soon as the import statements are generated
SaveBeforeWrite ==
    /\ rPc = "write"
    /\ dCache' = save(mMeta)
    /\ rPc' = "idle"
    /\ hSaves' = hSaves + 1
    /\ hSaved' = mMeta
    /\ UNCHANGED <<dFiles, dOut, mMeta, rResults, rThrown, rResolved, rWritten, rUpdated,
                   rRun, rEdits, hCacheAtStart>>
    /\ UNCHANGED exceptRun

\* line 1116: metadataHandler.save(), and process returns
Save ==
    /\ rPc = "write"
    /\ rWritten = Len(rResults)
    /\ rUpdated = 1..Len(rResults)
    /\ dCache' = save(mMeta)
    /\ rPc' = "idle"
    /\ hSaves' = hSaves + 1
    /\ hSaved' = mMeta
    /\ UNCHANGED <<dFiles, dOut, mMeta, rResults, rThrown, rResolved, rWritten, rUpdated,
                   rRun, rEdits, hCacheAtStart>>
    /\ UNCHANGED exceptRun

\* between two runs a source file is edited
EditFile(p, text) ==
    /\ rPc \in {"idle", "failed"}
    /\ rRun >= 1
    /\ rRun < MaxRuns
    /\ rEdits < MaxEdits
    /\ text # dFiles[p]
    /\ rEdits' = rEdits + 1
    /\ dFiles' = [dFiles EXCEPT ![p] = text]
    /\ UNCHANGED <<dCache, dOut, mMeta, rPc, rResults, rThrown, rResolved, rWritten,
                   rUpdated, rRun, hCacheAtStart, hSaves, hSaved>>
    /\ UNCHANGED exceptRun

(***************************************************************************)
(* DeclarationSynthesizer and the per-file renderer (src/unnamed/part_002, *)
(* lines 456-852 and 899-1035).                                            *)
(*                                                                         *)
(* A file is given as the entries of parsedCommentMap in statement order   *)
(* followed by the standalone blocks, each a pair [node, comments] of a    *)
(* luaparse statement (None for a standalone block) and the annotation     *)
(* nodes of its comment block, or a pair [node, lines] whose block is      *)
(* given by its comment lines and parsed by parseAnnotations.  Rendered    *)
(* text is kept as a list of records, one per declaration written.         *)
(***************************************************************************)
MaxItems == 3

\* undefined where a string is expected: a value that is no string of characters
Undefined == <<"undefined">>

S_integer == <<"i","n","t","e","g","e","r">>
S_float == <<"f","l","o","a","t">>
S_nil == <<"n","i","l">>
S_lightuserdata == <<"l","i","g","h","t","u","s","e","r","d","a","t","a">>
S_table == <<"t","a","b","l","e">>
S_Record == <<"R","e","c","o","r","d","<","s","t","r","i","n","g",",",
              " ","a","n","y",">">>
S_TypeSuffix == <<":",":","T","y","p","e">>
S_self == <<"s","e","l","f">>
S_dotsArgs == <<".",".",".","a","r","g","s">>
S_anyArr == <<"a","n","y","[","]">>
S_this == <<"t","h","i","s">>

TYPE_REPLACERS ==
    (S_integer :> S_number) @@ (S_float :> S_number) @@ (S_string :> S_string)
    @@ (S_boolean :> S_boolean) @@ (S_nil :> S_null)
    @@ (S_lightuserdata :> S_Record) @@ (S_table :> S_Record)

\* String.prototype.indexOf(pat) for a string needle; -1 when absent
IndexOfStr(s, pat) ==
    LET At(i) == i + Len(pat) - 1 <= Len(s) /\ SubSeq(s, i, i + Len(pat) - 1) = pat
    IN  IF \E i \in 1..Len(s) : At(i)
        THEN (CHOOSE i \in 1..Len(s) : At(i) /\ \A j \in 1..(i - 1) : ~At(j)) - 1
        ELSE -1

\* String.prototype.replace(pat, rep) for a string pattern: the first occurrence
ReplaceFirst(s, pat, rep) ==
    LET i == IndexOfStr(s, pat)
    IN  IF i < 0 THEN s
        ELSE SubSeq(s, 1, i) \o rep \o SubSeq(s, i + Len(pat) + 1, Len(s))

\* a variant that leaves every type name as it is written
replaceTypeVerbatim(type) == type

\* lines 456-460
replaceType(type) ==
    LET t == ReplaceFirst(type, S_TypeSuffix, <<>>)
    IN  IF t \in DOMAIN TYPE_REPLACERS THEN TYPE_REPLACERS[t]
        ELSE IF t \in DOMAIN ObjectPrototype THEN ObjectPrototype[t]
        ELSE t

\* lines 547-552
shouldAddUsedType(type) ==
    \* for a value that is no string, length is an arity or undefined, includes
    \* finds nothing and the text the pattern is tested on has other characters
    IF NotAString(type) THEN <<>>
    ELSE IF Len(type) <= 1 THEN <<>>
    ELSE IF type \in INTERNALS THEN <<>>
    \* /^[a-zA-Z0-9_]+$/gm: with the m flag one line of the text is enough
    ELSE IF \E a \in 1..Len(type) : \E b \in a..Len(type) :
                /\ \A i \in a..b : type[i] \in Lower \cup Upper \cup Digit \cup {"_"}
                /\ a = 1 \/ IsLineTerminator(type[a - 1])
                /\ b = Len(type) \/ IsLineTerminator(type[b + 1])
    THEN <<type>>
    ELSE <<>>

\* lines 554-608: the rendered text, and the names pushed to types in order
RECURSIVE renderTypeNode(_)
renderTypeNode(node) ==
    LET Sub(list) == [i \in 1..Len(list) |-> renderTypeNode(list[i])]
        Texts(rs) == [i \in 1..Len(rs) |-> rs[i].text]
        Pushed(rs) == Concat([i \in 1..Len(rs) |-> rs[i].types])
    IN
    CASE node.kind = "simple" ->
           LET type == replaceType(node.name)
           IN  [text |-> type, types |-> shouldAddUsedType(type)]
      [] node.kind = "generic" ->
           LET type == replaceType(node.base)
               ps   == Sub(node.parameters)
           IN  [text  |-> type \o <<"<">> \o Join(Texts(ps), <<",", " ">>) \o <<">">>,
                types |-> shouldAddUsedType(type) \o Pushed(ps)]
      [] node.kind = "union" ->
           LET os == Sub(node.options)
           IN  [text |-> Join(Texts(os), <<" ", "|", " ">>), types |-> Pushed(os)]
      [] node.kind = "function" ->
           LET ret == renderTypeNode(node.returnType)
               ps  == [i \in 1..Len(node.parameters) |->
                          renderTypeNode(node.parameters[i].type)]
               Param(i) ==
                   IF node.parameters[i].name = S_dots
                   THEN S_dotsArgs \o <<":", " ">> \o S_anyArr
                   ELSE IF node.parameters[i].name # <<>>
                   THEN node.parameters[i].name \o <<":", " ">> \o ps[i].text
                   ELSE ps[i].text
           IN  [text  |-> <<"(">> \o Join([i \in 1..Len(ps) |-> Param(i)], <<",", " ">>)
                          \o <<")", " ", "=", ">", " ">> \o ret.text,
                types |-> ret.types \o Pushed(ps)]
      [] node.kind = "table" ->
           LET ks == [i \in 1..Len(node.fields) |-> renderTypeNode(node.fields[i].key)]
               vs == [i \in 1..Len(node.fields) |-> renderTypeNode(node.fields[i].value)]
               Field(i) == <<"[">> \o ks[i].text
                           \o <<":"," ","n","u","m","b","e","r"," ","|"," ",
                                "s","t","r","i","n","g","]",":"," ">>
                           \o vs[i].text
           IN  [text  |-> Join([i \in 1..Len(ks) |-> Field(i)], <<",", " ">>),
                types |-> Concat([i \in 1..Len(ks) |-> ks[i].types \o vs[i].types])]
      [] node.kind = "array" ->
           LET e == renderTypeNode(node.elementType)
           IN  [text  |-> <<"A","r","r","a","y","<">> \o e.text \o <<">">>,
                types |-> e.types]
      [] node.kind = "staticArray" ->
           LET es == Sub(node.elementType)
           IN  [text  |-> <<"[">> \o Join(Texts(es), <<",", " ">>) \o <<"]">>,
                types |-> Pushed(es)]
      [] node.kind = "optional" ->
           LET t == renderTypeNode(node.type)
           IN  [text  |-> t.text \o <<" ","|"," ","u","n","d","e","f","i","n","e","d">>,
                types |-> t.types]

\* luaparse nodes
Identifier(name) == [type |-> "Identifier", name |-> name]
MemberExpression(base, indexer, name) ==
    [type |-> "MemberExpression", base |-> base, indexer |-> indexer,
     identifier |-> Identifier(name)]

\* `throw new Error("Unsupported expression type: " + node.type)`, line 663
Unsupported(node) == [type |-> "Error", unsupported |-> node.type]

\* base.name of a rendered base, undefined when it is no type reference
NameOf(expr) == IF "name" \in DOMAIN expr THEN expr.name ELSE Undefined

MemberOf(node, base) ==
    IF base.type = "Error" THEN base
    ELSE [type |-> "TypeRefExpression",
          name |-> NameOf(base) \o node.indexer \o node.identifier.name]

UnaryOf(node, expr) ==
    IF expr.type = "Error" THEN expr
    ELSE IF node.operator = "-"
    THEN [type |-> "UnaryExpression", operator |-> "minus", argument |-> expr]
    ELSE Unsupported(node)

\* lines 630-665: the TSType of an expression, or the error thrown for an
\* expression that has no route
RECURSIVE renderExpression(_)
renderExpression(node) ==
    CASE node.type = "Identifier" -> [type |-> "TypeRefExpression", name |-> node.name]
      [] node.type = "MemberExpression" -> MemberOf(node, renderExpression(node.base))
      [] node.type \in {"StringLiteral", "NumericLiteral", "BooleanLiteral"} ->
           [type |-> "ConstValueExpression", value |-> node.value]
      [] node.type = "UnaryExpression" -> UnaryOf(node, renderExpression(node.argument))
      [] OTHER -> Unsupported(node)

EmptyMeta ==
    [isEnum |-> FALSE, classes |-> <<>>, fields |-> <<>>, params |-> <<>>,
     returnType |-> Undefined, comments |-> <<>>, aliases |-> <<>>, types |-> <<>>]

\* lines 488-542: one annotation node; types collects what renderTypeNode pushed
ReadComment(ret, comment) ==
    CASE comment.kind = "enum" -> [ret EXCEPT !.isEnum = TRUE]
      [] comment.kind = "class" ->
           LET tt == IF comment.tableType # None
                     THEN renderTypeNode(comment.tableType)
                     ELSE [text |-> Undefined, types |-> <<>>]
           IN  [ret EXCEPT !.classes = Append(@,
                                [name      |-> comment.name,
                                 generics  |-> comment.generics,
                                 extends   |-> comment.extends,
                                 tableType |-> tt.text,
                                 useType   |-> comment.extends = S_string]),
                           !.types = @ \o tt.types]
      [] comment.kind = "field" ->
           LET t == renderTypeNode(comment.type)
           IN  [ret EXCEPT !.fields = Append(@, [name |-> comment.name, type |-> t.text]),
                           !.types = @ \o t.types]
      [] comment.kind = "param" ->
           LET t == renderTypeNode(comment.type)
           IN  [ret EXCEPT !.params = Append(@, [name |-> comment.name, type |-> t.text]),
                           !.types = @ \o t.types]
      [] comment.kind = "return" ->
           LET t == renderTypeNode(comment.type)
           IN  [ret EXCEPT !.returnType = t.text, !.types = @ \o t.types]
      [] comment.kind = "comment" -> [ret EXCEPT !.comments = Append(@, comment.text)]
      [] comment.kind = "alias" ->
           LET t == renderTypeNode(comment.type)
           IN  [ret EXCEPT !.aliases = Append(@, [name |-> comment.name, type |-> t.text]),
                           !.types = @ \o t.types]
      [] OTHER -> ret

\* lines 477-545
RECURSIVE ReadLoop(_, _, _)
ReadLoop(comments, i, ret) ==
    IF i > Len(comments) THEN ret
    ELSE ReadLoop(comments, i + 1, ReadComment(ret, comments[i]))

readComments(comments) == ReadLoop(comments, 1, EmptyMeta)

\* Map.prototype.set on a map kept in insertion order
MapSet(map, key, value) ==
    IF \E i \in 1..Len(map) : map[i].key = key
    THEN [i \in 1..Len(map) |-> IF map[i].key = key THEN [key |-> key, value |-> value]
                                ELSE map[i]]
    ELSE Append(map, [key |-> key, value |-> value])

\* lines 751-761: the parameters taken from the @param annotations
RECURSIVE ParamsOfMeta(_, _, _)
ParamsOfMeta(ps, i, acc) ==
    IF i > Len(ps) THEN acc
    ELSE IF ps[i].name = S_self
    THEN ParamsOfMeta(ps, i + 1, [acc EXCEPT !.hasSelf = TRUE])
    ELSE IF ps[i].name # S_dots
    THEN ParamsOfMeta(ps, i + 1,
             [acc EXCEPT !.params = MapSet(@, ps[i].name, [type |-> ps[i].type])])
    ELSE ParamsOfMeta(ps, i + 1,
             [acc EXCEPT !.params = MapSet(@, S_dotsArgs, [type |-> S_anyArr])])

\* lines 763-773: the parameters taken from the function's own parameter list
RECURSIVE ParamsOfNode(_, _, _)
ParamsOfNode(ps, i, acc) ==
    IF i > Len(ps) THEN acc
    ELSE IF ps[i].type = "Identifier"
    THEN IF ps[i].name = S_self
         THEN ParamsOfNode(ps, i + 1, [acc EXCEPT !.hasSelf = TRUE])
         ELSE ParamsOfNode(ps, i + 1,
                  [acc EXCEPT !.params = MapSet(@, ps[i].name, [type |-> S_any])])
    ELSE IF ps[i].type = "VarargLiteral"
    THEN ParamsOfNode(ps, i + 1,
             [acc EXCEPT !.params = MapSet(@, S_dotsArgs, [type |-> S_anyArr])])
    ELSE ParamsOfNode(ps, i + 1, acc)

\* the first defined element of a list of strings, or undefined
FirstDefined(list) ==
    IF \E i \in 1..Len(list) : list[i] # Undefined
    THEN list[CHOOSE i \in 1..Len(list) :
                 list[i] # Undefined /\ \A j \in 1..(i - 1) : list[j] = Undefined]
    ELSE Undefined

\* lines 685-714: a local statement whose block has no @enum
LocalStatement(local, meta) ==
    LET _extends == FirstDefined([i \in 1..Len(meta.classes) |-> meta.classes[i].extends])
        generics == Concat([i \in 1..Len(meta.classes) |-> meta.classes[i].generics])
        One(init) ==
            IF init.type # "TableConstructorExpression" THEN <<>>
            ELSE IF Len(meta.classes) > 0
            THEN << [type     |-> "ClassStatement",
                     name     |-> meta.classes[1].name,
                     generics |-> generics,
                     extends  |-> _extends,
                     fields   |-> meta.fields,
                     comments |-> meta.comments,
                     tableType |-> Undefined,
                     useType  |-> FALSE] >>
            ELSE << [type |-> "DeclareObjectStatement", name |-> local.variables[1].name] >>
        Pushes(init) ==
            IF /\ init.type = "TableConstructorExpression" /\ Len(meta.classes) > 0
               /\ _extends # Undefined /\ _extends # <<>>
            THEN <<_extends>> ELSE <<>>
    IN  [statements |-> Concat([i \in 1..Len(local.init) |-> One(local.init[i])]),
         types      |-> Concat([i \in 1..Len(local.init) |-> Pushes(local.init[i])])]

\* lines 744-785
FunctionDeclaration(func, meta) ==
    LET name == renderExpression(func.identifier).name
        got  == IF Len(meta.params) > 0
                THEN ParamsOfMeta(meta.params, 1, [params |-> <<>>, hasSelf |-> FALSE])
                ELSE ParamsOfNode(func.parameters, 1, [params |-> <<>>, hasSelf |-> FALSE])
    IN  [statements |-> << [type       |-> "FunctionStatement",
                            name       |-> name,
                            static     |-> ~got.hasSelf,
                            generics   |-> Concat([i \in 1..Len(meta.classes) |->
                                                      meta.classes[i].generics]),
                            params     |-> got.params,
                            comments   |-> meta.comments,
                            returnType |-> meta.returnType] >>,
         types      |-> <<>>]

\* lines 827-850: a standalone block
Orphan(meta) ==
    [statements |->
        [i \in 1..Len(meta.classes) |->
            [type      |-> "ClassStatement",
             name      |-> meta.classes[i].name,
             fields    |-> meta.fields,
             generics  |-> meta.classes[i].generics,
             extends   |-> meta.classes[i].extends,
             tableType |-> meta.classes[i].tableType,
             comments  |-> meta.comments,
             useType   |-> meta.classes[i].useType]]
        \o
        [i \in 1..Len(meta.aliases) |->
            [type     |-> "AliasStatement",
             name     |-> meta.aliases[i].name,
             typeName |-> meta.aliases[i].type,
             comments |-> meta.comments]],
     types |-> <<>>]

\* Number.prototype.toString for a natural number
RECURSIVE NumberToString(_)
NumberToString(n) ==
    LET digits == <<"0","1","2","3","4","5","6","7","8","9">>
    IN  IF n < 10 THEN <<digits[n + 1]>>
        ELSE NumberToString(n \div 10) \o <<digits[(n % 10) + 1]>>

KeyedBy(key, field) ==
    IF key.type = "Error" THEN <<Undefined, key>>
    ELSE <<NameOf(key), renderExpression(field.value)>>

\* lines 614-627: the key of a table field and the TSType of its value; the
\* second element is the error when renderExpression threw
renderNode(field) ==
    CASE field.type = "TableKeyString" -> <<field.key.name, renderExpression(field.value)>>
      [] field.type = "TableKey" -> KeyedBy(renderExpression(field.key), field)
      [] OTHER -> <<<<>>, [type |-> "ConstValueExpression", value |-> <<>>]>>

S_true == <<"t","r","u","e">>
S_false == <<"f","a","l","s","e">>

\* value.toString() of the literal a ConstValueExpression was made from
LiteralText(lit) ==
    CASE lit.type = "NumericLiteral" -> NumberToString(lit.value)
      [] lit.type = "BooleanLiteral" -> IF lit.value THEN S_true ELSE S_false
      [] OTHER -> lit.value

\* JSON.stringify of a string value, without the enclosing quotation marks:
\* a quotation mark, a backslash, a control character (U+0000 to U+001F) and
\* a lone surrogate are escaped; a high surrogate (U+D800 to U+DBFF) followed
\* by a low one (U+DC00 to U+DFFF) is a pair and is written as it is
JsonEscape(str) ==
    LET Hex == {"0","1","2","3","4","5","6","7","8","9","a","b","c","d","e","f"}
        Controls  == {<<"0", "0", h3, h4>> : h3 \in {"0", "1"}, h4 \in Hex}
        Highs     == {<<"d", h2, h3, h4>> : h2 \in {"8","9","a","b"}, h3 \in Hex, h4 \in Hex}
        Lows      == {<<"d", h2, h3, h4>> : h2 \in {"c","d","e","f"}, h3 \in Hex, h4 \in Hex}
        CodeName(d) == "U+" \o d[1] \o d[2] \o d[3] \o d[4]
        Among(c, codes) == \E d \in codes : c = CodeName(d)
        Digits(c, codes) == CHOOSE d \in codes : c = CodeName(d)
        Paired(i) ==
            \/ Among(str[i], Highs) /\ i < Len(str) /\ Among(str[i + 1], Lows)
            \/ Among(str[i], Lows) /\ i > 1 /\ Among(str[i - 1], Highs)
        JsonChar(i) ==
            LET c == str[i] IN
            CASE c = "\"" -> <<"\\", "\"">>
              [] c = "\\" -> <<"\\", "\\">>
              [] c \in {"\n", "U+000a"} -> <<"\\", "n">>
              [] c \in {"\r", "U+000d"} -> <<"\\", "r">>
              [] c \in {"\t", "U+0009"} -> <<"\\", "t">>
              [] c \in {"\f", "U+000c"} -> <<"\\", "f">>
              [] c = "U+0008" -> <<"\\", "b">>
              [] Among(c, Controls) -> <<"\\", "u">> \o Digits(c, Controls)
              [] Among(c, Highs \cup Lows) /\ ~Paired(i) ->
                   <<"\\", "u">> \o Digits(c, Highs \cup Lows)
              [] OTHER -> <<c>>
    IN  Concat([i \in 1..Len(str) |-> JsonChar(i)])

\* JSON.stringify of the TSType renderExpression gives for an expression
RECURSIVE JsonOf(_)
JsonOf(expr) ==
    CASE expr.type \in {"Identifier", "MemberExpression"} ->
           <<"{","\"","t","y","p","e","\"",":","\"","T","y","p","e","R","e","f","E","x","p","r","e","s","s","i","o","n","\"",",","\"","n","a","m","e","\"",":","\"">>
           \o JsonEscape(renderExpression(expr).name)
           \o <<"\"",",","\"","c","o","m","m","e","n","t","s","\"",":","[","]","}">>
      [] expr.type = "UnaryExpression" ->
           <<"{","\"","t","y","p","e","\"",":","\"","U","n","a","r","y","E","x","p","r","e","s","s","i","o","n","\"",",","\"","o","p","e","r","a","t","o","r","\"",":","\"","m","i","n","u","s","\"",",","\"","a","r","g","u","m","e","n","t","\"",":">>
           \o JsonOf(expr.argument) \o <<"}">>
      [] expr.type = "StringLiteral" ->
           <<"{","\"","t","y","p","e","\"",":","\"","C","o","n","s","t","V","a","l","u","e","E","x","p","r","e","s","s","i","o","n","\"",",","\"","v","a","l","u","e","\"",":">>
           \o <<"\"">> \o JsonEscape(expr.value) \o <<"\"">>
           \o <<",","\"","c","o","m","m","e","n","t","s","\"",":","[","]","}">>
      [] OTHER ->
           <<"{","\"","t","y","p","e","\"",":","\"","C","o","n","s","t","V","a","l","u","e","E","x","p","r","e","s","s","i","o","n","\"",",","\"","v","a","l","u","e","\"",":">>
           \o LiteralText(expr)
           \o <<",","\"","c","o","m","m","e","n","t","s","\"",":","[","]","}">>

\* lines 732-736 and 810-814: the text of an enum entry's value
ValueText(field, value) ==
    IF field.type \notin {"TableKeyString", "TableKey"} THEN <<>>
    ELSE IF value.type = "ConstValueExpression" THEN LiteralText(field.value)
    ELSE IF /\ value.type = "UnaryExpression" /\ value.operator = "minus"
            /\ value.argument.type = "ConstValueExpression"
    THEN <<"-">> \o LiteralText(field.value.argument)
    ELSE JsonOf(field.value)

EnumEntry(field, rendered) == <<rendered[1], ValueText(field, rendered[2])>>

\* lines 729-737 and 809-815
EnumEntries(fields) == [i \in 1..Len(fields) |-> EnumEntry(fields[i], renderNode(fields[i]))]

\* the fields of the table constructors among the initialisers, in order
TableFields(init) ==
    Concat([i \in 1..Len(init) |->
               IF init[i].type = "TableConstructorExpression" THEN init[i].fields
               ELSE <<>>])

\* the fields for which renderNode throws, in order
Throwing(fields) == SelectSeq(fields, LAMBDA f : renderNode(f)[2].type = "Error")

\* the result of renderStatement when renderNode threw for one of the fields
ThrownBy(fields) ==
    [statements |-> <<>>, types |-> <<>>, thrown |-> TRUE,
     unsupported |-> renderNode(fields[1])[2].unsupported]

\* lines 716-742: a local statement whose block has an @enum
LocalEnum(local) ==
    LET One(init) ==
            IF init.type # "TableConstructorExpression" THEN <<>>
            ELSE << [type     |-> "EnumStatement",
                     name     |-> local.variables[1].name,
                     entries  |-> EnumEntries(init.fields)] >>
    IN  IF Throwing(TableFields(local.init)) # <<>>
        THEN ThrownBy(Throwing(TableFields(local.init)))
        ELSE [statements |-> Concat([i \in 1..Len(local.init) |-> One(local.init[i])]),
              types      |-> <<>>,
              thrown     |-> FALSE]

\* (x as Lua.Identifier).name, which join() writes as "" when it is undefined
NameOrEmpty(variable) == IF "name" \in DOMAIN variable THEN variable.name ELSE <<>>

\* lines 786-825: renderNode reads the block again for every table field,
\* and throws for a field value renderExpression has no route for
AssignmentStatement(assignment, meta) ==
    LET varName == Join([i \in 1..Len(assignment.variables) |->
                            NameOrEmpty(assignment.variables[i])], <<",", " ">>)
        fields  == TableFields(assignment.init)
    IN  IF Throwing(fields) # <<>> THEN ThrownBy(Throwing(fields))
        ELSE
        [statements |->
            IF Len(meta.classes) > 0
            THEN << [type      |-> "ClassStatement",
                     name      |-> varName,
                     generics  |-> <<>>,
                     extends   |-> Undefined,
                     fields    |-> meta.fields,
                     comments  |-> meta.comments,
                     tableType |-> Undefined,
                     useType   |-> FALSE] >>
            ELSE IF meta.isEnum
            THEN << [type     |-> "EnumStatement",
                     name     |-> varName,
                     entries  |-> EnumEntries(fields),
                     comments |-> meta.comments] >>
            ELSE IF Len(meta.aliases) > 0
            THEN << [type     |-> "AliasStatement",
                     name     |-> varName,
                     typeName |-> meta.aliases[1].type,
                     comments |-> meta.comments] >>
            ELSE <<>>,
         types  |-> Concat([i \in 1..Len(fields) |-> meta.types]),
         thrown |-> FALSE]

\* lines 673-684
ReturnStatement(ret) ==
    [statements |->
        Concat([i \in 1..Len(ret.arguments) |->
                   IF ret.arguments[i].type = "Identifier"
                   THEN <<[type |-> "ExportStatement", name |-> ret.arguments[i].name]>>
                   ELSE <<>>]),
     types |-> <<>>]

\* lines 672-852, for the statements the inputs contain: the switch on the
\* node's type once the block's annotations have been read
renderStatementWith(node, meta) ==
    LET r == IF node = None THEN Orphan(meta)
             ELSE CASE node.type = "ReturnStatement" -> ReturnStatement(node)
                    [] node.type = "LocalStatement" /\ ~meta.isEnum ->
                         LocalStatement(node, meta)
                    [] node.type = "LocalStatement" /\ meta.isEnum -> LocalEnum(node)
                    [] node.type = "FunctionDeclaration" -> FunctionDeclaration(node, meta)
                    [] node.type = "AssignmentStatement" ->
                         AssignmentStatement(node, meta)
                    [] OTHER -> [statements |-> <<>>, types |-> <<>>]
    IN  [statements |-> r.statements, types |-> meta.types \o r.types,
         thrown |-> "thrown" \in DOMAIN r /\ r.thrown]

\* lines 668-852: the statements returned, and the names pushed to types
renderStatement(node, comments) == renderStatementWith(node, readComments(comments))

\* lines 926-950: the line written for a function statement
renderFunction(func, globalFn, objectType) ==
    LET isStatic == ~globalFn /\ Includes(func.name, ".")
        name == IF globalFn THEN func.name
                ELSE IF isStatic THEN SplitOn(func.name, ".")[2]
                ELSE SplitOn(func.name, ":")[2]
        own == [i \in 1..Len(func.params) |->
                   [name |-> func.params[i].key, type |-> func.params[i].value.type]]
        params == IF isStatic THEN <<[name |-> S_this, type |-> S_void]>> \o own ELSE own
        \* line 937 tests the return type for truth, line 948 for undefined
        returnType == IF globalFn /\ ~objectType
                      THEN IF func.returnType # Undefined THEN func.returnType ELSE S_void
                      ELSE IF func.returnType # Undefined /\ func.returnType # <<>>
                      THEN func.returnType ELSE S_void
    IN  [kind       |-> IF objectType THEN "objectMember"
                        ELSE IF ~globalFn THEN "member" ELSE "function",
         name       |-> name,
         static     |-> isStatic,
         params     |-> params,
         returnType |-> returnType,
         comments   |-> func.comments]

OfType(statements, type) == SelectSeq(statements, LAMBDA x : x.type = type)

\* lines 983 and 1013: the function statements whose name starts with "N:" or "N."
FunctionsOf(statements, owner) ==
    SelectSeq(statements, LAMBDA x :
        /\ x.type = "FunctionStatement"
        /\ (StartsWith(x.name, owner \o <<":">>) \/ StartsWith(x.name, owner \o <<".">>)))

\* line 977
GlobalFunctions(statements) ==
    SelectSeq(statements, LAMBDA x :
        x.type = "FunctionStatement" /\ ~Includes(x.name, ":") /\ ~Includes(x.name, "."))

RECURSIVE SetAddAll(_, _)
SetAddAll(arr, xs) == IF xs = <<>> THEN arr ELSE SetAddAll(SetAdd(arr, Head(xs)), Tail(xs))

NamesIn(list) == [i \in 1..Len(list) |-> list[i].name]

\* stmt.comments || []: the doc comment renderComments writes before a
\* declaration (lines 916-923)
CommentsOfStatement(stmt) == IF "comments" \in DOMAIN stmt THEN stmt.comments ELSE <<>>

\* lines 952-1030: the declarations written for a file, the names it exports
\* and the names it refers to
RenderFile(statements, types) ==
    LET enums   == OfType(statements, "EnumStatement")
        aliases == OfType(statements, "AliasStatement")
        globals == GlobalFunctions(statements)
        objects == OfType(statements, "DeclareObjectStatement")
        classes == OfType(statements, "ClassStatement")
        exports == OfType(statements, "ExportStatement")
        Members(owner, objectType) ==
            LET funcs == FunctionsOf(statements, owner)
            IN  [i \in 1..Len(funcs) |-> renderFunction(funcs[i], FALSE, objectType)]
        globalLines == [i \in 1..Len(globals) |-> renderFunction(globals[i], TRUE, FALSE)]
        exportDefs ==
            SetAddAll(SetAddAll(SetAddAll(SetAddAll(<<>>, NamesIn(enums)), NamesIn(aliases)),
                                NamesIn(globalLines)), NamesIn(classes))
        usedTypes == SetAddAll(<<>>, types)
        render ==
            [i \in 1..Len(enums) |->
                [kind |-> "enum", name |-> enums[i].name, entries |-> enums[i].entries,
                 comments |-> CommentsOfStatement(enums[i])]]
            \o
            [i \in 1..Len(aliases) |->
                [kind |-> "alias", name |-> aliases[i].name,
                 typeName |-> aliases[i].typeName,
                 comments |-> CommentsOfStatement(aliases[i])]]
            \o globalLines
            \o
            [i \in 1..Len(objects) |->
                IF FunctionsOf(statements, objects[i].name) = <<>>
                THEN [kind |-> "declareAny", name |-> objects[i].name]
                ELSE [kind |-> "declareObject", name |-> objects[i].name,
                      members |-> Members(objects[i].name, TRUE)]]
            \o
            [i \in 1..Len(classes) |->
                IF classes[i].useType
                THEN [kind |-> "typeAlias", name |-> classes[i].name,
                      generics |-> classes[i].generics, extends |-> classes[i].extends,
                      comments |-> CommentsOfStatement(classes[i])]
                ELSE [kind |-> "class", name |-> classes[i].name,
                      generics |-> classes[i].generics, extends |-> classes[i].extends,
                      tableType |-> classes[i].tableType,
                      members |-> Members(classes[i].name, FALSE),
                      fields |-> classes[i].fields,
                      comments |-> CommentsOfStatement(classes[i])]]
            \o
            [i \in 1..Len(exports) |-> [kind |-> "exportDefault", name |-> exports[i].name]]
    IN  [render       |-> render,
         exportDefs   |-> exportDefs,
         usedTypes    |-> usedTypes,
         foreignTypes |-> SelectSeq(usedTypes,
                             LAMBDA x : ~ArrIncludes(exportDefs, x) /\ x \notin INTERNALS)]

\* the statement/block pairs the files are written from
N_bar == <<"b","a","r">>
N_baz == <<"b","a","z">>
N_g == <<"g">>
N_Obj == <<"O","b","j">>
N_a == <<"a">>

TableConstructor(fields) == [type |-> "TableConstructorExpression", fields |-> fields]

TableLocal(name) ==
    [type |-> "LocalStatement", variables |-> <<Identifier(name)>>,
     init |-> <<TableConstructor(<<>>)>>]

\* a parameter list: "..." is the vararg literal, any other name an identifier
FunctionNode(identifier, parameters) ==
    [type |-> "FunctionDeclaration", identifier |-> identifier,
     parameters |-> [i \in 1..Len(parameters) |->
                        IF parameters[i] = S_dots
                        THEN [type |-> "VarargLiteral", value |-> S_dots]
                        ELSE Identifier(parameters[i])]]

ClassNode(name) ==
    [kind |-> "class", name |-> name, generics |-> <<>>, extends |-> Undefined,
     tableType |-> None]

ClassNodeExtends(name, super) ==
    [kind |-> "class", name |-> name, generics |-> <<>>, extends |-> super,
     tableType |-> None]

ParamNode(name, type) == [kind |-> "param", name |-> name, type |-> Simple(type)]

\* ---@class Foo / local Foo = {}
ItemClassFoo == [node |-> TableLocal(N_Foo), comments |-> <<ClassNode(N_Foo)>>]
\* local Obj = {}
ItemObject == [node |-> TableLocal(N_Obj), comments |-> <<>>]
\* function Foo:bar() end
ItemMethod ==
    [node |-> FunctionNode(MemberExpression(Identifier(N_Foo), <<":">>, N_bar), <<>>),
     comments |-> <<>>]
\* ---@param a integer / function Foo:bar(a) end
ItemMethodA ==
    [node |-> FunctionNode(MemberExpression(Identifier(N_Foo), <<":">>, N_bar), <<N_a>>),
     comments |-> <<ParamNode(N_a, S_integer)>>]
\* function Obj.baz(a) end
ItemStatic ==
    [node |-> FunctionNode(MemberExpression(Identifier(N_Obj), <<".">>, N_baz), <<N_a>>),
     comments |-> <<>>]
\* ---@param a Foo / function g(a) end
ItemGlobal ==
    [node |-> FunctionNode(Identifier(N_g), <<N_a>>),
     comments |-> <<ParamNode(N_a, N_Foo)>>]
\* a standalone block: ---@class Foo / ---@class Obj
ItemOrphanTwo == [node |-> None, comments |-> <<ClassNode(N_Foo), ClassNode(N_Obj)>>]
\* a standalone block: ---@class Obj : Foo
ItemOrphanExtends == [node |-> None, comments |-> <<ClassNodeExtends(N_Obj, N_Foo)>>]
\* a standalone block: ---@class Obj : string
ItemOrphanString == [node |-> None, comments |-> <<ClassNodeExtends(N_Obj, S_string)>>]
\* ---@class Foo : string / local Foo = {}
ItemClassString ==
    [node |-> TableLocal(N_Foo), comments |-> <<ClassNodeExtends(N_Foo, S_string)>>]
\* local Foo, Obj = {}, {}
ItemLocalTwo ==
    [node |-> [type |-> "LocalStatement",
               variables |-> <<Identifier(N_Foo), Identifier(N_Obj)>>,
               init |-> <<TableConstructor(<<>>), TableConstructor(<<>>)>>],
     comments |-> <<>>]
\* - - "a\"b": a string holding a quotation mark, under two minus signs
MinusMinusText ==
    [type |-> "UnaryExpression", operator |-> "-",
     argument |-> [type |-> "UnaryExpression", operator |-> "-",
                   argument |-> [type |-> "StringLiteral", value |-> <<"a","\"","b">>]]]
\* ---@enum Foo / local Foo = { a = 1, b = - - "a\"b" }
ItemEnum ==
    [node |-> [type |-> "LocalStatement", variables |-> <<Identifier(N_Foo)>>,
               init |-> <<TableConstructor(
                            <<[type |-> "TableKeyString", key |-> Identifier(N_a),
                               value |-> [type |-> "NumericLiteral", value |-> 1]],
                              [type |-> "TableKeyString", key |-> Identifier(<<"b">>),
                               value |-> MinusMinusText]>>)>>],
     comments |-> <<[kind |-> "enum", name |-> N_Foo]>>]
\* Obj = {}
ItemGlobalTable ==
    [node |-> [type |-> "AssignmentStatement", variables |-> <<Identifier(N_Obj)>>,
               init |-> <<TableConstructor(<<>>)>>],
     comments |-> <<>>]
\* function g(a, ...) end
ItemVararg ==
    [node |-> FunctionNode(Identifier(N_g), <<N_a, S_dots>>), comments |-> <<>>]
\* ---@param a integer / function g(a, ...) end
ItemVarargParam ==
    [node |-> FunctionNode(Identifier(N_g), <<N_a, S_dots>>),
     comments |-> <<ParamNode(N_a, S_integer)>>]

(***************************************************************************)
(* parseAnnotations (src/lib/annotation-parser.ts, lines 31-166): the       *)
(* nodes of a list of comment lines.                                       *)
(***************************************************************************)
MaxAnnotLines == 3

S_dashes == <<"-","-","-">>
S_dashesAt == <<"-","-","-","@">>
S_dashesBar == <<"-","-","-","|">>
S_meta == <<"m","e","t","a">>
S_enum == <<"e","n","u","m">>
S_alias == <<"a","l","i","a","s">>
S_param == <<"p","a","r","a","m">>
S_field == <<"f","i","e","l","d">>
S_return == <<"r","e","t","u","r","n">>
S_class == <<"c","l","a","s","s">>

\* a line taken as it is written
LineBodyRaw(rawLine) == rawLine

\* line 36: rawLine.trim()
LineBody(rawLine) == Trim(rawLine)

\* lines 106-110, for a one-character delimiter
splitOnce(str, delim) ==
    IF IndexOf(str, delim) < 0 THEN <<str, <<>>>>
    ELSE <<Slice(str, 0, IndexOf(str, delim)), Trim(SliceFrom(str, IndexOf(str, delim) + 1))>>

\* lines 122-124: the last character before 0-based index i that is not a
\* space is a comma
PrevIsComma(str, i) ==
    \E k \in 1..i : str[k] = "," /\ \A j \in (k + 1)..i : str[j] = " "

\* the loop of extractTypeAndDesc: the 0-based index at which it stops
RECURSIVE ExtractLoop(_, _, _)
ExtractLoop(str, i, depth) ==
    IF i >= Len(str) THEN i
    ELSE IF str[i + 1] \in Openers THEN ExtractLoop(str, i + 1, depth + 1)
    ELSE IF str[i + 1] \in Closers THEN ExtractLoop(str, i + 1, depth - 1)
    ELSE IF str[i + 1] = " " /\ depth = 0 /\ ~PrevIsComma(str, i) THEN i
    ELSE ExtractLoop(str, i + 1, depth)

\* the two parts cut at 0-based index i
CutAt(str, i) == <<Trim(Slice(str, 0, i)), Trim(SliceFrom(str, i))>>

\* lines 112-128
extractTypeAndDesc(str) == CutAt(str, ExtractLoop(str, 0, 0))

\* /^([\w$]+)(?:<(.+)>)?$/ : <<name, generics text>>, or <<>> when it does
\* not match; the generics text is <<>> when the group did not take part
ClassDeclMatch(s) ==
    IF WordPrefixLen(s) = 0 THEN <<>>
    ELSE IF WordPrefixLen(s) = Len(s) THEN <<s, <<>>>>
    ELSE IF /\ Len(s) >= WordPrefixLen(s) + 3
            /\ s[WordPrefixLen(s) + 1] = "<"
            /\ s[Len(s)] = ">"
            /\ OneLine(SubSeq(s, WordPrefixLen(s) + 2, Len(s) - 1))
    THEN <<SubSeq(s, 1, WordPrefixLen(s)), SubSeq(s, WordPrefixLen(s) + 2, Len(s) - 1)>>
    ELSE <<>>

\* line 157
GenericsOf(text) ==
    IF text = <<>> THEN <<>>
    ELSE [i \in 1..Len(SplitOn(text, ",")) |-> Trim(SplitOn(text, ",")[i])]

\* lines 158-165: the class node, given the match and the text after the colon
ClassOf(m, rest, tableType, line) ==
    IF m = <<>> THEN Err("Invalid @class declaration")
    ELSE IF rest # <<>> /\ StartsWith(Trim(rest), <<"{">>)
    THEN IF IsErr(tableType) THEN tableType
         ELSE [kind |-> "class", name |-> m[1], generics |-> GenericsOf(m[2]),
               extends |-> Undefined, tableType |-> tableType, line |-> line]
    ELSE [kind |-> "class", name |-> m[1], generics |-> GenericsOf(m[2]),
          extends |-> IF rest # <<>> THEN Trim(rest) ELSE Undefined,
          tableType |-> None, line |-> line]

\* lines 152-166
parseClass(text, line) ==
    ClassOf(ClassDeclMatch(Trim(splitOnce(text, ":")[1])), splitOnce(text, ":")[2],
            parseTableType(Trim(splitOnce(text, ":")[2])), line)

\* an alias node, or the error parseType raised
AliasNode(name, type, line) ==
    IF IsErr(type) THEN type
    ELSE [kind |-> "alias", name |-> name, type |-> type, line |-> line]

\* lines 147-150
parseAlias(text, line) ==
    AliasNode(splitOnce(text, " ")[1], parseType(splitOnce(text, " ")[2]), line)

\* lines 60-65: the first line from j on that is not a `---|` variant
RECURSIVE VariantEnd(_, _)
VariantEnd(lines, j) ==
    IF j <= Len(lines) /\ StartsWith(Trim(lines[j]), S_dashesBar)
    THEN VariantEnd(lines, j + 1)
    ELSE j

\* lines 66-68: the union of the variants written on lines i+1 .. j-1
UnionOf(options) ==
    IF HasErr(options) THEN FirstErr(options)
    ELSE [kind |-> "union", options |-> options]

\* lines 57-74
AliasAt(lines, i, rest, j) ==
    IF j > i + 1
    THEN [node |-> AliasNode(rest,
                       UnionOf([k \in 1..(j - i - 1) |->
                                   parseType(Trim(SliceFrom(Trim(lines[i + k]), 4)))]), i),
          next |-> j]
    ELSE [node |-> parseAlias(rest, i), next |-> i + 1]

\* a param or field node, or the error parseType raised
NamedNode(kind, name, type, description, line) ==
    IF IsErr(type) THEN type
    ELSE [kind |-> kind, name |-> name, type |-> type, description |-> description,
          line |-> line]

\* lines 75-86: name, then type and description
NamedAt(kind, name, td, i) ==
    [node |-> NamedNode(kind, name, parseType(td[1]), td[2], i), next |-> i + 1]

\* a return node, or the error parseType raised
ReturnNode(type, description, line) ==
    IF IsErr(type) THEN type
    ELSE [kind |-> "return", type |-> type, description |-> description, line |-> line]

\* lines 87-91
ReturnAt(td, i) == [node |-> ReturnNode(parseType(td[1]), td[2], i), next |-> i + 1]

\* lines 50-100: the switch on the tag
TagAt(lines, i, tag, rest) ==
    CASE tag = S_meta -> [node |-> [kind |-> "meta", line |-> i], next |-> i + 1]
      [] tag = S_enum ->
           [node |-> [kind |-> "enum", name |-> rest, line |-> i], next |-> i + 1]
      [] tag = S_alias -> AliasAt(lines, i, rest, VariantEnd(lines, i + 1))
      [] tag = S_param ->
           NamedAt("param", splitOnce(rest, " ")[1],
                   extractTypeAndDesc(splitOnce(rest, " ")[2]), i)
      [] tag = S_field ->
           NamedAt("field", splitOnce(rest, " ")[1],
                   extractTypeAndDesc(splitOnce(rest, " ")[2]), i)
      [] tag = S_return -> ReturnAt(extractTypeAndDesc(rest), i)
      [] tag = S_class -> [node |-> parseClass(rest, i), next |-> i + 1]
      [] OTHER -> [node |-> None, next |-> i + 1]

\* lines 34-100: one iteration; raw is the trimmed line, i its 1-based number
LineAt(lines, i, raw) ==
    IF /\ StartsWith(raw, S_dashes) /\ ~StartsWith(raw, S_dashesAt)
       /\ ~StartsWith(raw, S_dashesBar)
    THEN [node |-> [kind |-> "comment", text |-> Trim(SliceFrom(raw, 3)), line |-> i],
          next |-> i + 1]
    ELSE IF ~StartsWith(raw, S_dashesAt) THEN [node |-> None, next |-> i + 1]
    ELSE TagAt(lines, i, splitOnce(Trim(SliceFrom(raw, 4)), " ")[1],
               splitOnce(Trim(SliceFrom(raw, 4)), " ")[2])

RECURSIVE AnnotLoop(_, _, _), AnnotPush(_, _, _)

\* nodes.push, or the exception leaves parseAnnotations
AnnotPush(lines, nodes, r) ==
    IF r.node = None THEN AnnotLoop(lines, r.next, nodes)
    ELSE IF IsErr(r.node) THEN r.node
    ELSE AnnotLoop(lines, r.next, Append(nodes, r.node))

\* the loop of lines 33-101
AnnotLoop(lines, i, nodes) ==
    IF i > Len(lines) THEN [kind |-> "nodes", nodes |-> nodes]
    ELSE AnnotPush(lines, nodes, LineAt(lines, i, LineBody(lines[i])))

\* lines 31-103
parseAnnotations(lines) == AnnotLoop(lines, 1, <<>>)

\* the lines of the inputs: a class, an indented field, a class with a
\* supertype, a blank line, an unknown tag and a plain comment
L_classFoo == S_dashesAt \o S_class \o <<" ">> \o N_Foo
L_fieldBar == <<" "," ">> \o S_dashesAt \o S_field \o <<" ">> \o N_bar \o <<" ">> \o S_integer
L_classObj == S_dashesAt \o S_class \o <<" ">> \o N_Obj \o <<" ",":"," ">> \o N_Foo
L_blank == <<" "," ">>
L_see == S_dashesAt \o <<"s","e","e"," ","x">>
L_note == S_dashes \o <<" ","n","o","t","e">>

AnnotLines == {L_classFoo, L_fieldBar, L_classObj, L_blank, L_see, L_note}

AnnotStart ==
    /\ pLines \in SeqsUpTo(AnnotLines, MaxAnnotLines)
    /\ pNodes = None

AnnotIdle ==
    /\ pLines = <<>>
    /\ pNodes = None

\* parseAnnotations(lines)
ParseAnnotations ==
    /\ pNodes = None
    /\ pNodes' = parseAnnotations(pLines)
    /\ UNCHANGED pLines
    /\ UNCHANGED exceptAnnot

N_x == <<"x">>
L_fieldX == S_dashesAt \o S_field \o <<" ">> \o N_x \o <<" ">> \o S_integer
L_enumFoo == S_dashesAt \o S_enum \o <<" ">> \o N_Foo
L_classGeneric ==
    S_dashesAt \o S_class \o <<" ">> \o N_Foo \o <<"<","T",">"," ",":"," ">> \o N_Obj
L_doc == S_dashes \o <<" ","d","o","c">>
L_returnEmpty == S_dashesAt \o S_return \o <<" ","{","}">>
L_aliasFoo == S_dashesAt \o S_alias \o <<" ">> \o N_Foo \o <<" ">> \o S_integer

TableAssignment(name) ==
    [type |-> "AssignmentStatement", variables |-> <<Identifier(name)>>,
     init |-> <<TableConstructor(<<>>)>>]

\* ---@class Foo / ---@field x integer / local Foo = {}
ItemClassField == [node |-> TableLocal(N_Foo), lines |-> <<L_classFoo, L_fieldX>>]
\* ---@class Foo / ---@enum Foo / local Foo = {}
ItemClassEnumLocal ==
    [node |-> TableLocal(N_Foo), lines |-> <<L_classFoo, L_enumFoo>>]
\* ---@class Foo / ---@enum Foo / Foo = {}
ItemClassEnumAssign ==
    [node |-> TableAssignment(N_Foo), lines |-> <<L_classFoo, L_enumFoo>>]
\* ---@class Foo<T> : Obj / local Foo = {}
ItemGenericLocal == [node |-> TableLocal(N_Foo), lines |-> <<L_classGeneric>>]
\* ---@class Foo<T> : Obj / Foo = {}
ItemGenericAssign == [node |-> TableAssignment(N_Foo), lines |-> <<L_classGeneric>>]
\* a standalone block: --- doc / ---@class Foo<T> : Obj
ItemGenericOrphan == [node |-> None, lines |-> <<L_doc, L_classGeneric>>]
\* a standalone block: ---@alias Foo integer
ItemAliasOrphan == [node |-> None, lines |-> <<L_aliasFoo>>]
\* ---@alias Foo integer / local Obj = {}
ItemAliasLocal == [node |-> TableLocal(N_Obj), lines |-> <<L_aliasFoo>>]
\* ---@alias Foo integer / Obj = {}
ItemAliasAssign == [node |-> TableAssignment(N_Obj), lines |-> <<L_aliasFoo>>]
\* ---@alias Foo integer / ---@return {} / function g() end
ItemAliasFunction ==
    [node |-> FunctionNode(Identifier(N_g), <<>>), lines |-> <<L_aliasFoo, L_returnEmpty>>]
\* Obj = { a = function() end }
ItemAssignFunction ==
    [node |-> [type |-> "AssignmentStatement", variables |-> <<Identifier(N_Obj)>>,
               init |-> <<TableConstructor(
                            <<[type |-> "TableKeyString", key |-> Identifier(N_a),
                               value |-> [type |-> "FunctionDeclaration"]]>>)>>],
     comments |-> <<>>]
\* ---@alias Foo integer / return Obj
ItemAliasReturn ==
    [node |-> [type |-> "ReturnStatement", arguments |-> <<Identifier(N_Obj)>>],
     lines |-> <<L_aliasFoo>>]

\* a block is given by the nodes parseAnnotations returned for it or by the
\* comment lines it is parsed from (annotation-parser.ts, line 322)
CommentsOf(item) ==
    IF "lines" \in DOMAIN item THEN parseAnnotations(item.lines).nodes ELSE item.comments

Items == {ItemClassFoo, ItemObject, ItemMethod, ItemMethodA, ItemStatic, ItemGlobal,
          ItemOrphanTwo, ItemOrphanExtends, ItemOrphanString, ItemClassString, ItemLocalTwo, ItemEnum,
          ItemGlobalTable, ItemVararg, ItemVarargParam, ItemClassField,
          ItemClassEnumLocal, ItemClassEnumAssign, ItemGenericLocal, ItemGenericAssign,
          ItemGenericOrphan, ItemAliasOrphan, ItemAliasLocal, ItemAliasAssign,
          ItemAliasFunction, ItemAliasReturn, ItemAssignFunction}

FileStart ==
    /\ fItems \in SeqsUpTo(Items, MaxItems)
    /\ fPos = 0
    /\ fStatements = <<>>
    /\ fTypes = <<>>
    /\ fOut = None
    /\ fPc = "statements"

FileIdle ==
    /\ fItems = <<>>
    /\ fPos = 0
    /\ fStatements = <<>>
    /\ fTypes = <<>>
    /\ fOut = None
    /\ fPc = "off"

\* lines 901-913 for a result of renderStatement: its statements are pushed;
\* when it threw, the callback is rejected and nothing is written
PushStatements(r) ==
    IF r.thrown
    THEN fPc' = "failed" /\ UNCHANGED <<fPos, fStatements, fTypes>>
    ELSE /\ fPos' = fPos + 1
         /\ fStatements' = fStatements \o r.statements
         /\ fTypes' = fTypes \o r.types
         /\ UNCHANGED fPc

\* lines 901-913: renderStatement for the next pair
SynthesizeNext ==
    /\ fPc = "statements"
    /\ fPos < Len(fItems)
    /\ PushStatements(renderStatement(fItems[fPos + 1].node, CommentsOf(fItems[fPos + 1])))
    /\ UNCHANGED <<fItems, fOut>>
    /\ UNCHANGED exceptFile

\* lines 914-1035: the file is rendered
Emit ==
    /\ fPc = "statements"
    /\ fPos = Len(fItems)
    /\ fOut' = RenderFile(fStatements, fTypes)
    /\ fPc' = "done"
    /\ UNCHANGED <<fItems, fPos, fStatements, fTypes>>
    /\ UNCHANGED exceptFile

\* lines 509-536: readComments renders the TypeNode of a directive and pushes
\* the names it refers to
Render ==
    /\ tResult # None
    /\ ~IsErr(tResult)
    /\ tRendered = None
    /\ tRendered' = renderTypeNode(tResult)
    /\ UNCHANGED <<tSrc, tText, tResult>>
    /\ UNCHANGED exceptType

(***************************************************************************)
(* Specifications, one per component.                                      *)
(***************************************************************************)
TypeInit == TypeStart /\ AssocIdle /\ GenIdle /\ RunIdle /\ FileIdle /\ AnnotIdle
TypeNext == Parse \/ Render
SpecType == TypeInit /\ [][TypeNext]_vars

AssocInit == AssocStart /\ TypeIdle /\ GenIdle /\ RunIdle /\ FileIdle /\ AnnotIdle
AssocNext == Group \/ Associate \/ Collect
SpecAssoc == AssocInit /\ [][AssocNext]_vars

GenInit == GenStart /\ TypeIdle /\ AssocIdle /\ RunIdle /\ FileIdle /\ AnnotIdle
GenNext == \E name \in FnNames, fields \in FieldLists : DefineFunction(name, fields)
SpecGen == GenInit /\ [][GenNext]_vars

RunInit == RunStart /\ TypeIdle /\ AssocIdle /\ GenIdle /\ FileIdle /\ AnnotIdle
RunNext ==
    \/ StartRun
    \/ TranspileNext
    \/ Barrier
    \/ ResolveNext
    \/ GenerateImports
    \/ WriteNext
    \/ \E i \in 1..Len(Paths) : Update(i)
    \/ Save
    \/ \E p \in PathSet, text \in SourceTexts : EditFile(p, text)
SpecRun == RunInit /\ [][RunNext]_vars

AnnotInit == AnnotStart /\ TypeIdle /\ AssocIdle /\ GenIdle /\ RunIdle /\ FileIdle
AnnotNext == ParseAnnotations
SpecAnnot == AnnotInit /\ [][AnnotNext]_vars

FileInit == FileStart /\ TypeIdle /\ AssocIdle /\ GenIdle /\ RunIdle /\ AnnotIdle
FileNext == SynthesizeNext \/ Emit
SpecFile == FileInit /\ [][FileNext]_vars

(***************************************************************************)
(* Claims.                                                                 *)
(***************************************************************************)
\* C1: for every function type expression fun(<params>): <R>, parse returns a
\* function node whose parameters are the written parameters in order, each with
\* its name and parsed type, and whose returnType is the parse of <R>; the void
\* default is used only when no return-type trailer follows the parenthesis.
C1_FunctionTypeParse ==
    (tResult # None /\ tSrc.kind = "fun") =>
        /\ tResult.kind = "function"
        /\ Len(tResult.parameters) = Len(tSrc.params)
        /\ \A i \in 1..Len(tSrc.params) :
               /\ tResult.parameters[i].name = tSrc.params[i].name
               /\ tResult.parameters[i].type = parseType(tSrc.params[i].type)
        /\ tResult.returnType =
               (IF tSrc.trailer = "none" THEN Simple(S_void) ELSE parseType(tSrc.ret))

\* the blocks whose last line is the line right above statement s
AdjacentBlocks(s) == {b \in 1..Len(aBlocks) : aBlocks[b].to = aStmts[s] - 1}

InStandalone(b) == \E k \in 1..Len(aStandalone) : aStandalone[k] = b

\* C2 as stated: a block is attached to a statement exactly when its last line
\* is the statement's first line minus one, and a directive-bearing block that
\* is right above no statement is attached to none and returned as standalone.
C2_AttachedExactlyWhenAdjacent ==
    aPc = "done" =>
        /\ \A s \in 1..Len(aStmts) : \A b \in 1..Len(aBlocks) :
               (aMap[s] = b) <=> (b \in AdjacentBlocks(s))
        /\ \A b \in 1..Len(aBlocks) :
               (/\ Len(aBlocks[b].nodes) > 0
                /\ \A s \in 1..Len(aStmts) : b \notin AdjacentBlocks(s))
               => (b \notin aAttached /\ InStandalone(b))

\* C3: whichever of the two same-named declarations has the longer parameter
\* list, the merge completes and leaves one declaration under that name whose
\* parameter list has max(|existing.params|, |incoming.params|) entries.
C3_MergeCompletes ==
    (gLast # None /\ gLast.collided) =>
        /\ ~gThrown
        /\ gDefs[gLast.name] # None
        /\ Len(gDefs[gLast.name].fields) = Max(Len(gLast.existing), Len(gLast.incoming))

\* the qualified name a member line of owner stands for
QualifiedName(owner, member) ==
    owner \o (IF member.static THEN <<".">> ELSE <<":">>) \o member.name

\* C4: when a file is emitted no two of its function declarations share a
\* qualified name, and each qualified name is rendered as exactly one
\* signature: the member lines of a rendered class or object stand for
\* pairwise different qualified names, and so do the global function lines.
C4_OneSignaturePerName ==
    fPc = "done" =>
        /\ \A i, j \in 1..Len(fStatements) :
               (/\ i # j
                /\ fStatements[i].type = "FunctionStatement"
                /\ fStatements[j].type = "FunctionStatement")
               => fStatements[i].name # fStatements[j].name
        /\ \A k \in 1..Len(fOut.render) :
               fOut.render[k].kind \in {"class", "declareObject"} =>
                  \A i, j \in 1..Len(fOut.render[k].members) :
                      i # j => QualifiedName(fOut.render[k].name, fOut.render[k].members[i])
                               # QualifiedName(fOut.render[k].name, fOut.render[k].members[j])
        /\ \A k, l \in 1..Len(fOut.render) :
               (k # l /\ fOut.render[k].kind = "function" /\ fOut.render[l].kind = "function")
               => fOut.render[k].name # fOut.render[l].name

\* the outputs of the run are final: every import line has been generated
Emitted(i) == rPc \in {"write", "idle"} /\ i \in 1..rWritten

\* the processed files other than the i-th that export name n
OtherExporters(i, n) ==
    {j \in 1..Len(rResults) : j # i /\ ArrIncludes(rResults[j].exportDefs, n)}

\* the places (line, position) at which the import lines of an output name n
ImportPlaces(out, n) ==
    {pl \in {<<k, q>> : k \in 1..Len(out.imports), q \in 1..3} :
        pl[2] <= Len(out.imports[pl[1]].types) /\ out.imports[pl[1]].types[pl[2]] = n}

StubPlaces(out, n) == {k \in 1..Len(out.stubs) : out.stubs[k].name = n}

\* the file a relative specifier denotes when read from directory dir
RECURSIVE Normalize(_, _, _)
Normalize(segs, i, acc) ==
    IF i > Len(segs) THEN acc
    ELSE IF segs[i] = "." THEN Normalize(segs, i + 1, acc)
    ELSE IF segs[i] = ".." /\ acc # <<>>
    THEN Normalize(segs, i + 1, SubSeq(acc, 1, Len(acc) - 1))
    ELSE Normalize(segs, i + 1, Append(acc, segs[i]))

Target(dir, from) == Normalize(dir \o from, 1, <<>>)

\* C5: for a written file F with foreign name N: if another file processed in
\* the run exports N, F's output names N in exactly one import line, the line's
\* path is explicitly relative and leads to the output of a processed file other
\* than F that exports N, and N is not stubbed; if no processed file and no
\* loaded cache entry exports N, F's output declares exactly one stub for N
\* (type N = unknown or the fixed fallback shape) and the entry recorded for F
\* lists N in missingDeps; every foreign name is either imported or stubbed,
\* never both.
C5_ImportOrStub ==
    \A i \in 1..Len(rResults) : Emitted(i) =>
        LET F   == rResults[i]
            out == dOut[F.path]
        IN  \A k \in 1..Len(F.foreignTypes) :
              LET n == F.foreignTypes[k] IN
              /\ OtherExporters(i, n) # {} =>
                   /\ Cardinality(ImportPlaces(out, n)) = 1
                   /\ StubPlaces(out, n) = {}
                   /\ \A pl \in ImportPlaces(out, n) :
                        LET from == out.imports[pl[1]].from IN
                        /\ from[1] \in {".", ".."}
                        /\ \E j \in OtherExporters(i, n) :
                             Target(OutputDir(F.path), from) = OutputPath(rResults[j].path)
              /\ (/\ OtherExporters(i, n) = {}
                  /\ findExport(load(hCacheAtStart), n) = <<>>) =>
                   /\ Cardinality(StubPlaces(out, n)) = 1
                   /\ \A q \in StubPlaces(out, n) :
                        out.stubs[q].text \in
                            {"type N = unknown;"}
                            \cup ({FALLBACK_DEFS[t] : t \in DOMAIN FALLBACK_DEFS} \ {""})
                   /\ i \in rUpdated =>
                        ArrIncludes(findPath(mMeta, F.path).missingDeps, n)
              /\ (ImportPlaces(out, n) = {}) # (StubPlaces(out, n) = {})

\* C6: in every run a file is skipped exactly when the stored hash for its path
\* equals the hash of (tool version, path, source text), and a skipped file
\* carries the recorded entry unchanged.
C6_SkipsUnchanged ==
    rPc = "transpile" =>
        \A i \in 1..Len(rResults) :
            LET previous == findPath(mMeta, rResults[i].path)
                same == /\ previous # None
                        /\ previous.fcHash =
                              generateFcHash(rResults[i].path, dFiles[rResults[i].path])
            IN  /\ rResults[i].skip <=> same
                /\ same => rResults[i].cached = previous

SetOf(arr) == {arr[i] : i \in 1..Len(arr)}

\* C7: the entries load() returns from the file save() wrote have, entry by
\* entry, the same sets of imports, missingDeps and exports as the entries that
\* were saved; an empty set comes back as the empty set.
C7_SaveLoadRoundTrip ==
    (rPc = "transpile" /\ hCacheAtStart.present) =>
        /\ Len(mMeta) = Len(hSaved)
        /\ \A k \in 1..Len(mMeta) :
              /\ mMeta[k].path = hSaved[k].path
              /\ SetOf(mMeta[k].imports) = SetOf(hSaved[k].imports)
              /\ SetOf(mMeta[k].missingDeps) = SetOf(hSaved[k].missingDeps)
              /\ SetOf(mMeta[k].exports) = SetOf(hSaved[k].exports)

\* every path was transpiled without an exception, and every result was
\* resolved and its output written
RunComplete ==
    /\ TasksRun = Len(Paths)
    /\ rThrown = {}
    /\ rResolved = Len(rResults)
    /\ rWritten = Len(rResults)
    /\ \A i \in 1..Len(rResults) : dOut[rResults[i].path] = rResults[i].render

\* C8: within a run save() is called at most once, and the cache file differs
\* from what it was at the start of the run only after every selected file was
\* synthesized, resolved and written; a run that fails has not called save()
\* and leaves the cache file as it was.
C8_SaveOnceAtEnd ==
    /\ hSaves <= 1
    /\ (hSaves > 0 \/ dCache # hCacheAtStart) => RunComplete
    /\ rPc = "failed" => (hSaves = 0 /\ dCache = hCacheAtStart)

\* the second run fails on an edited file after transpiling another, and the
\* cache file written by the first run is still in place
C8_Witness ==
    /\ rPc = "failed"
    /\ rRun = 2
    /\ Len(rResults) >= 1
    /\ dCache.present
    /\ dCache = hCacheAtStart

\* C9: whenever some result's imports or stubs have been computed, every path
\* of the run has been transpiled and none threw.
C9_EmissionBarrier ==
    (\/ rResolved > 0
     \/ \E i \in 1..Len(rResults) :
           \/ rResults[i].imports # <<>>
           \/ rResults[i].notFound # <<>>
           \/ rResults[i].render.stubs # <<>>
           \/ rResults[i].render.imports # <<>>)
    => (/\ TasksRun = Len(Paths)
        /\ rThrown = {}
        /\ \A p \in PathSet : \E i \in 1..Len(rResults) : rResults[i].path = p)

\* the first result has its import resolved while the others have not
C9_Witness ==
    /\ rPc = "resolve"
    /\ rResolved = 1
    /\ rResults[1].imports # <<>>
    /\ Len(rResults) = Len(Paths)

\* the processed files that export name n, by position in processing order
Declarers(n) == {j \in 1..Len(rResults) : ArrIncludes(rResults[j].exportDefs, n)}

\* the file an import line of the i-th result that names n leads to
ImportTargets(i, n) ==
    LET out == dOut[rResults[i].path]
    IN  {Target(OutputDir(rResults[i].path), out.imports[pl[1]].from) :
            pl \in ImportPlaces(out, n)}

\* C10 as stated: when processed files declare a name, a reference to it
\* from another file is resolved to the declaring file processed last.
C10_LastDeclarerOwns ==
    \A i \in 1..Len(rResults) : Emitted(i) =>
        \A k \in 1..Len(rResults[i].foreignTypes) :
            LET n == rResults[i].foreignTypes[k] IN
            Declarers(n) # {} =>
                ImportTargets(i, n) =
                    {OutputPath(rResults[CHOOSE j \in Declarers(n) :
                                    \A l \in Declarers(n) : l <= j].path)}

\* the source lines of block b, from and to included
BlockLines(b) == aBlocks[b].from..aBlocks[b].to

\* C11: the blocks the grouping step produces have pairwise disjoint line
\* ranges [from, to]: no source line belongs to two blocks.
C11_BlocksDisjoint ==
    aPc # "group" =>
        \A b \in 1..Len(aBlocks) : \A c \in 1..Len(aBlocks) :
            b # c => BlockLines(b) \cap BlockLines(c) = {}

\* the statements block b is attached to
StatementsOf(b) == {s \in 1..Len(aMap) : aMap[s] = b}

\* C12: after association every block is attached to exactly one statement or
\* is in the standalone set, and never both; no block is attached to two
\* statements and none is neither attached nor standalone.
C12_AttachedOrOrphaned ==
    aPc = "done" =>
        \A b \in 1..Len(aBlocks) :
            /\ Cardinality(StatementsOf(b)) <= 1
            /\ (Cardinality(StatementsOf(b)) = 1) <=> ~InStandalone(b)

\* the statements renderStatement returned for the i-th pair of the file
Synthesized(i) == renderStatement(fItems[i].node, CommentsOf(fItems[i])).statements

\* the positions of the statements of the given types among a list
OfTypes(statements, types) == {k \in 1..Len(statements) : statements[k].type \in types}

\* C13: one statement/block pair yields at most one declaration among class,
\* enum and declared object, an orphaned block and a local statement with
\* several initialisers included.
C13_AtMostOneDeclaration ==
    \A i \in 1..fPos :
        Cardinality(OfTypes(Synthesized(i),
            {"ClassStatement", "EnumStatement", "DeclareObjectStatement"})) <= 1

HasVararg(node) ==
    /\ node # None
    /\ node.type = "FunctionDeclaration"
    /\ \E k \in 1..Len(node.parameters) : node.parameters[k].type = "VarargLiteral"

\* C14: a function statement whose parameter list has a vararg yields a
\* function declaration with exactly one parameter `...args` typed `any[]`,
\* whether or not its block carries param directives.
C14_VariadicKept ==
    \A i \in 1..fPos : HasVararg(fItems[i].node) =>
        /\ Len(Synthesized(i)) = 1
        /\ Synthesized(i)[1].type = "FunctionStatement"
        /\ LET ps == Synthesized(i)[1].params
           IN  /\ Cardinality({k \in 1..Len(ps) : ps[k].key = S_dotsArgs}) = 1
               /\ \A k \in 1..Len(ps) :
                      ps[k].key = S_dotsArgs => ps[k].value.type = S_anyArr

\* a local or non-local assignment of a table literal whose block has no class
\* and no enum directive
PlainTableAssignment(item) ==
    /\ item.node # None
    /\ item.node.type \in {"LocalStatement", "AssignmentStatement"}
    /\ \E k \in 1..Len(item.node.init) :
           item.node.init[k].type = "TableConstructorExpression"
    /\ \A k \in 1..Len(CommentsOf(item)) : CommentsOf(item)[k].kind \notin {"class", "enum"}

IsMemberOf(name, owner) ==
    StartsWith(name, owner \o <<":">>) \/ StartsWith(name, owner \o <<".">>)

\* C15: such an assignment yields exactly one declared object named after the
\* assigned variable, and the object is emitted with exactly the function
\* declarations whose qualified name starts with `<name>:` or `<name>.`.
C15_DeclaredObject ==
    /\ \A i \in 1..fPos : PlainTableAssignment(fItems[i]) =>
           LET objs == OfTypes(Synthesized(i), {"DeclareObjectStatement"})
           IN  /\ Cardinality(objs) = 1
               /\ \A k \in objs :
                      Synthesized(i)[k].name = fItems[i].node.variables[1].name
    /\ fPc = "done" =>
           \A k \in 1..Len(fOut.render) :
               fOut.render[k].kind \in {"declareObject", "declareAny"} =>
                   LET owner == fOut.render[k].name
                       members == IF fOut.render[k].kind = "declareAny" THEN <<>>
                                  ELSE fOut.render[k].members
                   IN  {QualifiedName(owner, members[m]) : m \in 1..Len(members)}
                       = {fStatements[j].name :
                             j \in {j \in OfTypes(fStatements, {"FunctionStatement"}) :
                                       IsMemberOf(fStatements[j].name, owner)}}

PrimitiveNames == {S_string, S_number, S_boolean, S_integer}

\* the class directives of a pair that name a primitive supertype, when the
\* pair is an orphaned block or a block attached to a table-literal assignment
PrimitiveClasses(item) ==
    IF item.node # None /\ item.node.type \notin {"LocalStatement", "AssignmentStatement"}
    THEN {}
    ELSE {k \in 1..Len(CommentsOf(item)) :
             /\ CommentsOf(item)[k].kind = "class"
             /\ CommentsOf(item)[k].extends \in PrimitiveNames}

\* C16: a class directive whose supertype is a primitive type name yields a
\* declaration flagged alias-like, rendered as a type alias equal to the
\* supertype, for an attached block and for an orphaned one.
C16_PrimitiveSuperIsAlias ==
    \A i \in 1..fPos : \A c \in PrimitiveClasses(fItems[i]) :
        /\ \E k \in OfTypes(Synthesized(i), {"ClassStatement"}) :
               /\ Synthesized(i)[k].name = CommentsOf(fItems[i])[c].name
               /\ Synthesized(i)[k].useType
        /\ fPc = "done" =>
               \E k \in 1..Len(fOut.render) :
                   /\ fOut.render[k].kind = "typeAlias"
                   /\ fOut.render[k].name = CommentsOf(fItems[i])[c].name
                   /\ fOut.render[k].extends = CommentsOf(fItems[i])[c].extends

\* a rendered type that is a plain type name
IsTypeName(t) == t # Undefined /\ t # <<>> /\ \A i \in 1..Len(t) : t[i] \in WordChar

\* the types a rendered function line refers to
TypesOfFunction(f) == {f.params[k].type : k \in 1..Len(f.params)} \cup {f.returnType}

\* the types a rendered declaration refers to: field, parameter and return
\* types, alias targets and supertypes
TypesOfLine(l) ==
    CASE l.kind = "class" ->
           {l.extends} \cup {l.fields[k].type : k \in 1..Len(l.fields)}
           \cup UNION {TypesOfFunction(l.members[k]) : k \in 1..Len(l.members)}
      [] l.kind = "typeAlias" -> {l.extends}
      [] l.kind = "alias" -> {l.typeName}
      [] l.kind = "function" -> TypesOfFunction(l)
      [] l.kind = "declareObject" ->
           UNION {TypesOfFunction(l.members[k]) : k \in 1..Len(l.members)}
      [] OTHER -> {}

\* C19: every type name the rendered declarations of a file refer to is a
\* built-in, is declared in the file, or is one of the file's foreign types,
\* each of which process() imports or declares by a fallback stub.
C19_SelfConsistent ==
    fPc = "done" =>
        \A k \in 1..Len(fOut.render) : \A t \in TypesOfLine(fOut.render[k]) :
            IsTypeName(t) =>
                \/ t \in INTERNALS
                \/ ArrIncludes(fOut.exportDefs, t)
                \/ ArrIncludes(fOut.foreignTypes, t)

\* C17 as stated: for any type name X, rendering the parse of "X[]" and of
\* "{[number]: X}" records X in the used type names, the name T included.
C17_RecordsEveryName ==
    (tRendered # None /\ tSrc.kind \in {"array", "tableOf"}) =>
        ArrIncludes(tRendered.types, tSrc.name)

\* C18: parse returns no TypeNode for malformed input: the empty text, a text
\* with an unterminated bracket and a table entry that is not `[key]: value`
\* each raise an error.
C18_MalformedRaises ==
    (tResult # None /\ tSrc.kind = "text") => IsErr(tResult)

\* what the claim expects of one line, numbered i
ExpectedOf(text, i) ==
    CASE text = L_classFoo ->
           <<[kind |-> "class", name |-> N_Foo, generics |-> <<>>,
              extends |-> Undefined, tableType |-> None, line |-> i]>>
      [] text = L_fieldBar ->
           <<[kind |-> "field", name |-> N_bar, type |-> Simple(S_integer),
              description |-> <<>>, line |-> i]>>
      [] text = L_classObj ->
           <<[kind |-> "class", name |-> N_Obj, generics |-> <<>>,
              extends |-> N_Foo, tableType |-> None, line |-> i]>>
      [] OTHER -> <<>>

\* the class and field nodes among a list of nodes
Directives(nodes) == SelectSeq(nodes, LAMBDA n : n.kind \in {"class", "field"})

\* C20: parseAnnotations returns the directives in source-line order,
\* whatever the leading white space and the blank lines: a class line gives a
\* class node with its name and no generics, a field line a field node whose
\* type is the simple type of the name as written, a class line with a
\* supertype a class node that extends it; a line with an unknown tag is
\* skipped and nothing is raised.
C20_DirectivesInOrder ==
    pNodes # None =>
        /\ ~IsErr(pNodes)
        /\ Directives(pNodes.nodes)
               = Concat([i \in 1..Len(pLines) |-> ExpectedOf(pLines[i], i)])
        /\ \A k \in 1..(Len(pNodes.nodes) - 1) :
               pNodes.nodes[k].line < pNodes.nodes[k + 1].line

\* the lines of a class, an indented field and a class with a supertype
\* have been parsed into three nodes
C20_Witness ==
    /\ pLines = <<L_classFoo, L_fieldBar, L_classObj>>
    /\ pNodes # None
    /\ Len(pNodes.nodes) = 3
    /\ pNodes.nodes[2].type = Simple(S_integer)
    /\ pNodes.nodes[3].extends = N_Foo

\* the lines of a kind among the lines written for a file
LinesOfKind(render, kind) == SelectSeq(render, LAMBDA l : l.kind = kind)

\* the entry of a written file as the cache file holds it after update, save
\* and the load of the next run
CachedEntry(path, out) ==
    load(save(update(<<>>, EntryOf([path |-> path, foreignTypes |-> out.foreignTypes,
                                    notFound |-> <<>>, exportDefs |-> out.exportDefs,
                                    sourceString |-> <<>>]))))[1]

\* C21: a file that consists of the lines "---@class Foo", "---@field x
\* integer" and "local Foo = {}" is written as exactly one class Foo with
\* exactly one field, x of type number, and the exported names recorded for
\* the file in the cache include Foo; in any file that contains these lines,
\* a class Foo with that one field is written and Foo is exported.
C21_ClassWithField ==
    (fPc = "done" /\ \E i \in 1..Len(fItems) : fItems[i] = ItemClassField) =>
        /\ \E k \in 1..Len(fOut.render) :
              /\ fOut.render[k].kind = "class"
              /\ fOut.render[k].name = N_Foo
              /\ fOut.render[k].fields = <<[name |-> N_x, type |-> S_number]>>
        /\ ArrIncludes(CachedEntry(Paths[1], fOut).exports, N_Foo)
        /\ fItems = <<ItemClassField>> =>
              /\ Len(fOut.render) = 1
              /\ fOut.exportDefs = <<N_Foo>>

\* the three lines alone have been written as one class with the field x
C21_Witness ==
    /\ fPc = "done"
    /\ fItems = <<ItemClassField>>
    /\ Len(LinesOfKind(fOut.render, "class")) = 1
    /\ fOut.render[1].fields = <<[name |-> N_x, type |-> S_number]>>


\* the elements of a list, as a set
ElementsOf(list) == {list[i] : i \in 1..Len(list)}

\* what the claim expects at index i of the merged list
MergedAsClaimed(merged, existing, incoming, i) ==
    IF i <= Len(existing) /\ i <= Len(incoming)
    THEN /\ merged[i].name = existing[i].name \o S_or \o incoming[i].name
         /\ ElementsOf(merged[i].types)
                = {Grouped(existing[i].types), Grouped(incoming[i].types)}
    ELSE IF i <= Len(incoming)
    THEN /\ merged[i].name = incoming[i].name \o <<"?">>
         /\ merged[i].types = <<Grouped(incoming[i].types)>>
    ELSE /\ merged[i].name = existing[i].name \o <<"?">>
         /\ merged[i].types = <<Grouped(existing[i].types)>>

\* C22: after a second declaration of a recorded function name, the merged
\* parameter at each index where both declarations have one is named
\* <existing>_or_<incoming> and typed by the two parenthesised type lists;
\* where only one declaration has a parameter, the merged parameter is that
\* one's name followed by "?" with its parenthesised type list alone.
C22_MergedParameters ==
    (gLast # None /\ gLast.collided) =>
        /\ ~gThrown
        /\ gDefs[gLast.name] # None
        /\ Len(gDefs[gLast.name].fields) = Max(Len(gLast.existing), Len(gLast.incoming))
        /\ \A i \in 1..Len(gDefs[gLast.name].fields) :
               MergedAsClaimed(gDefs[gLast.name].fields, gLast.existing, gLast.incoming, i)

\* the blocks whose last line is the line before statement s
EndingAbove(s) == {b \in 1..Len(aBlocks) : aBlocks[b].to = aStmts[s] - 1}

\* C23: when several blocks end on the line before a statement, the block
\* attached to the statement is the one the grouping step produced last.
C23_LatestBlockAttached ==
    \A s \in 1..Len(aMap) :
        EndingAbove(s) # {} =>
            /\ aMap[s] \in EndingAbove(s)
            /\ \A b \in EndingAbove(s) : b <= aMap[s]

\* the kinds of the directives of a pair
KindsOf(item) == {CommentsOf(item)[k].kind : k \in 1..Len(CommentsOf(item))}

\* a local or non-local assignment of a table literal
TableAssignmentNode(node) ==
    /\ node # None
    /\ node.type \in {"LocalStatement", "AssignmentStatement"}
    /\ \E k \in 1..Len(node.init) : node.init[k].type = "TableConstructorExpression"

\* C24: a block that carries both a class and an enum directive, attached to
\* a local or a non-local table-literal assignment, yields a class
\* declaration and no enum declaration.
C24_ClassBeatsEnum ==
    \A i \in 1..fPos :
        (TableAssignmentNode(fItems[i].node) /\ {"class", "enum"} \subseteq KindsOf(fItems[i]))
            => /\ OfTypes(Synthesized(i), {"ClassStatement"}) # {}
               /\ OfTypes(Synthesized(i), {"EnumStatement"}) = {}

\* the class directives of a pair whose block is orphaned or attached to a
\* local or non-local table-literal assignment
ClassDirectives(item) ==
    IF item.node # None /\ ~TableAssignmentNode(item.node) THEN {}
    ELSE {c \in 1..Len(CommentsOf(item)) : CommentsOf(item)[c].kind = "class"}

\* C25: every class declaration synthesized from a block with a class
\* directive has the directive's supertype as its extends and the names of
\* the directive's angle-bracket clause as its generics, whether the block is
\* attached to a local table-literal statement, to a non-local assignment, or
\* orphaned.
C25_ExtendsAndGenericsVerbatim ==
    \A i \in 1..fPos :
        (ClassDirectives(fItems[i]) # {} /\ "enum" \notin KindsOf(fItems[i])) =>
            /\ OfTypes(Synthesized(i), {"ClassStatement"}) # {}
            /\ \A k \in OfTypes(Synthesized(i), {"ClassStatement"}) :
                   \E c \in ClassDirectives(fItems[i]) :
                       /\ "extends" \in DOMAIN Synthesized(i)[k]
                       /\ Synthesized(i)[k].extends = CommentsOf(fItems[i])[c].extends
                       /\ Synthesized(i)[k].generics = CommentsOf(fItems[i])[c].generics

\* the alias directives of a pair
AliasDirectives(item) ==
    {c \in 1..Len(CommentsOf(item)) : CommentsOf(item)[c].kind = "alias"}

\* C30: every alias directive of a processed file yields an alias
\* declaration that carries the directive's own name, written as an
\* `export type <name> = ...` line and recorded as an exported name, whether
\* its block is orphaned or attached and whatever the kind of the statement
\* it is attached to.
C30_AliasAlwaysDeclared ==
    \A i \in 1..fPos : \A c \in AliasDirectives(fItems[i]) :
        /\ \E k \in OfTypes(Synthesized(i), {"AliasStatement"}) :
               Synthesized(i)[k].name = CommentsOf(fItems[i])[c].name
        /\ fPc = "done" =>
               /\ \E k \in 1..Len(fOut.render) :
                      /\ fOut.render[k].kind = "alias"
                      /\ fOut.render[k].name = CommentsOf(fItems[i])[c].name
               /\ ArrIncludes(fOut.exportDefs, CommentsOf(fItems[i])[c].name)

\* the results of the run for a path
ProcessedAs(path) == {j \in 1..Len(rResults) : rResults[j].path = path}

\* file path exports name n as of the run: it was processed in the run and
\* its export set contains n, or it was not processed and the entry the cache
\* held for it at the start of the run contains n
ExportsNow(path, n) ==
    IF ProcessedAs(path) # {}
    THEN \E j \in ProcessedAs(path) : ArrIncludes(rResults[j].exportDefs, n)
    ELSE \E k \in 1..Len(load(hCacheAtStart)) :
             /\ load(hCacheAtStart)[k].path = path
             /\ ArrIncludes(load(hCacheAtStart)[k].exports, n)

\* C26: in every run, every name an emitted import line takes from a file is
\* exported by that file as of the run; the cache entry of a file that was
\* processed again in the run is never what an import is made from.
C26_ImportsAreExported ==
    \A i \in 1..Len(rResults) : Emitted(i) =>
        \A k \in 1..Len(rResults[i].imports) :
            \A q \in 1..Len(rResults[i].imports[k].types) :
                ExportsNow(rResults[i].imports[k].path, rResults[i].imports[k].types[q])

\* C27: when a run has ended and no file was edited since it started, the
\* content hash the cache file holds for every path equals the hash the skip
\* check of the next run computes from the text on disk, for a file a fixer
\* rewrote before parsing as for any other, and that skip check recognises
\* every file as unchanged.
C27_HashOfTextOnDisk ==
    (rPc = "idle" /\ rRun >= 1 /\ rEdits = 0) =>
        \A k \in 1..Len(load(dCache)) :
            LET previous == load(dCache)[k] IN
            /\ previous.fcHash = generateFcHash(previous.path, dFiles[previous.path])
            /\ ShouldSkip(previous.path, dFiles[previous.path],
                          findPath(load(dCache), previous.path))

\* C28: no written file has an import line whose source is the file itself,
\* in any run and whatever the cache held at the start of the run.
C28_NoSelfImport ==
    \A i \in 1..Len(rResults) : Emitted(i) =>
        /\ \A k \in 1..Len(rResults[i].imports) :
               rResults[i].imports[k].path # rResults[i].path
        /\ \A k \in 1..Len(dOut[rResults[i].path].imports) :
               Target(OutputDir(rResults[i].path), dOut[rResults[i].path].imports[k].from)
                   # OutputPath(rResults[i].path)

\* the paths of a list of entries are pairwise distinct
DistinctPaths(entries) ==
    \A a \in 1..Len(entries) : \A b \in 1..Len(entries) :
        a # b => entries[a].path # entries[b].path

\* entries after is entries before with md put in place of the entry of md's
\* path, or appended when no entry has that path
UpdatedBy(before, after, md) ==
    IF \E k \in 1..Len(before) : before[k].path = md.path
    THEN /\ Len(after) = Len(before)
         /\ \A k \in 1..Len(before) :
                after[k] = IF before[k].path = md.path THEN md ELSE before[k]
    ELSE after = Append(before, md)

\* C29: every call of update(md) on entries with pairwise distinct paths
\* leaves the paths pairwise distinct: it puts md in place of the entry whose
\* path is md.path when there is one and appends md otherwise, and leaves
\* every other entry and the order of the entries as they were.
C29_UpdateKeepsOneEntryPerPath ==
    [][\A i \in 1..Len(rResults) :
          (rPc = "write" /\ i \notin rUpdated /\ rUpdated' = rUpdated \cup {i}) =>
              /\ DistinctPaths(mMeta)
              /\ DistinctPaths(mMeta')
              /\ UpdatedBy(mMeta, mMeta', EntryOf(rResults[i]))]_vars

\* in the second run the entry of an edited file has been replaced in place:
\* the handler holds one entry per path and one of them differs from what
\* was loaded
C29_Witness ==
    /\ rRun = 2
    /\ rPc = "write"
    /\ rUpdated # {}
    /\ Len(load(hCacheAtStart)) = Len(Paths)
    /\ Len(mMeta) = Len(Paths)
    /\ DistinctPaths(mMeta)
    /\ \E k \in 1..Len(mMeta) :
           /\ mMeta[k] # load(hCacheAtStart)[k]
           /\ mMeta[k].path = load(hCacheAtStart)[k].path
           /\ \E i \in rUpdated : mMeta[k] = EntryOf(rResults[i])

=============================================================================
